---------------------------- MODULE Spec2Model ----------------------------
(***************************************************************************)
(* Model of the financial_report pipeline: the three market collectors     *)
(* (integrations/gold_api.py, stocks_usa_api.py, stocks_cn_api.py), the    *)
(* analyzer of analysis/market_analyzer.py, the renderer of                 *)
(* analysis/report_generator.py and the orchestrator of main.py, with the  *)
(* retry loop of the collectors' requests and the writing of the latest    *)
(* file taken step by step.                                                *)
(*                                                                         *)
(* Numbers.  Prices are integers in hundredths of a currency unit          *)
(* (2050.30 is 205030) and change-percents are integers in hundredths of   *)
(* a percent (0.30 is 30, 1.0 is 100).  A Python dict is a TLA+ record or  *)
(* function whose DOMAIN is the set of keys, so `"close" in data` is       *)
(* "close" \in DOMAIN data.  Python's None is NoneVal when it stands for   *)
(* a dict-shaped value.  Quotes carry the fields the pipeline reads        *)
(* (symbol, source, close/price, previous close, change_percent, error,    *)
(* note, timestamp); the other OHLCV fields are copied through by the      *)
(* code without being inspected and are left out.  Chinese literals are    *)
(* written in English.                                                     *)
(***************************************************************************)
EXTENDS Integers, Sequences, FiniteSets, TLC

VARIABLES
    now,          \* wall clock (datetime.now()), in seconds
    hashSeed,     \* the process's string-hash seed (PYTHONHASHSEED)
    faults,       \* number of upstream fetches that did not return live data
    trendIn,      \* argument of _determine_trend
    trendOut,     \* its return value
    simCalls,     \* fallback quotes generated so far in this process
    runs,         \* number of collect_all runs made
    col,          \* collector of the last collect_all run
    upstream,     \* upstream outcome of every symbol in that run
    ret,          \* what that run returned (or Raised)
    fetchLog,     \* symbols requested in that run, in order
    files,        \* persisted store of each collector
    lastRet,      \* snapshot returned by the last completed run, per collector
    args,         \* the command line: --mode, --collect-only, --no-commit
    mode,         \* the mode run_full_pipeline was called with
    gitEnabled,   \* config.GIT_COMMIT["enabled"]
    analysisFile, \* analysis/latest_analysis.json
    pc,           \* stage of run_full_pipeline
    mk,           \* number of markets collect_data has dealt with
    stageLog,     \* the stages the run has entered, in order
    collected,    \* collected_data of the run
    returned,     \* per market, what its collect_all returned (or Raised)
    analysis,     \* analysis handed to the renderer
    report_path,  \* result["report"]
    success,      \* result["success"]
    errors,       \* result["errors"]
    gitLog,       \* git commands executed
    anIn,         \* the three snapshots handed to the analyzer
    anOut,        \* what each analysis of them returned (or Raised)
    renderIn,     \* the analysis handed to generate_daily_report
    renderOut,    \* the cells it rendered (or Raised)
    exited,       \* the summary main() printed and its exit code
    req,          \* one call of _make_request: attempts, sleeps, return value
    disk          \* one latest-file being rewritten, and what a reader saw

vars == <<now, hashSeed, faults, trendIn, trendOut, simCalls, runs, col,
          upstream, ret, fetchLog, files, lastRet, args, mode, gitEnabled,
          analysisFile, pc, mk, stageLog, collected, returned, analysis, report_path, success,
          errors, gitLog, anIn, anOut, renderIn, renderOut, exited, req, disk>>

colVars  == <<runs, col, upstream, ret, fetchLog, lastRet>>
pipeVars == <<args, mode, gitEnabled, analysisFile, pc, mk, stageLog,
              collected, returned, analysis, report_path, success, errors,
              gitLog, exited>>
anVars   == <<anIn, anOut, renderIn, renderOut>>
ioVars   == <<req, disk>>

-----------------------------------------------------------------------------
(* Bounds *)

MaxClock    == 1    \* the clock runs from 0 to MaxClock
MaxSeed     == 2    \* hash seeds 0..MaxSeed
MaxFaults   == 1    \* upstream fetches that may go wrong in one behaviour
MaxRuns     == 2    \* collect_all runs in one behaviour
MaxSimCalls == 2    \* fallback generations in one behaviour
MaxPct      == 150  \* change-percents from -1.50% to +1.50%

-----------------------------------------------------------------------------
(* Python values *)

NoneVal == [none |-> TRUE]
Raised  == [raised |-> TRUE]

\* The elements of a sequence, as a set.
Range(s) == {s[i] : i \in 1..Len(s)}

\* abs()
Abs(n) == IF n < 0 THEN -n ELSE n

\* Position of a symbol in a sequence of symbols (0 when it is not there).
IndexOf(s, x) == IF x \in Range(s) THEN CHOOSE i \in 1..Len(s) : s[i] = x ELSE 0

-----------------------------------------------------------------------------
(* analysis/market_analyzer.py: trend classification *)

\* A change-percent is None or a number.
NoPct == <<>>

_determine_trend_ge(change_percent) ==
    IF change_percent = NoPct THEN "unknown"
    ELSE LET c == change_percent[1] IN
         IF c >= 100 THEN "strong-up"
         ELSE IF c >= 20 THEN "mild-up"
         ELSE IF c <= -100 THEN "strong-down"
         ELSE IF c <= -20 THEN "mild-down"
         ELSE "flat"

_determine_trend(change_percent) ==
    IF change_percent = NoPct THEN "unknown"
    ELSE LET c == change_percent[1] IN
         IF c > 100 THEN "strong-up"
         ELSE IF c > 20 THEN "mild-up"
         ELSE IF c < -100 THEN "strong-down"
         ELSE IF c < -20 THEN "mild-down"
         ELSE "flat"


-----------------------------------------------------------------------------
(* integrations/stocks_cn_api.py: the simulated (fallback) quote generators *)

\* Every symbol the three collectors are configured with.
GoldSymbols == <<"GC=F">>
USIndices   == <<"^DJI", "^IXIC", "^GSPC">>
USStocks    == <<"AAPL", "MSFT", "GOOGL", "AMZN", "META", "NVDA", "TSLA">>
CNIndices   == <<"000001.SS", "399001.SZ", "399006.SZ", "000300.SS", "000016.SS">>
CNBlueChips == <<"600519.SS", "601398.SS", "601857.SS", "600036.SS",
                 "601988.SS", "600030.SS", "601888.SS", "300750.SZ">>

AllSymbols == GoldSymbols \o USIndices \o USStocks \o CNIndices \o CNBlueChips

\* Python's hash() of a string: a function of the string and of the seed the
\* process drew at start-up, of either sign.  The model keeps 12 bits of it.
HashHalf == 2048
Hash(symbol) ==
    LET code == IndexOf(AllSymbols, symbol)
    IN  (((hashSeed + 1) * 7919 + code * 1543 + hashSeed * code * 389)
            % (2 * HashHalf)) - HashHalf

\* base_data of _get_simulated_index_data.  Its second key is "399001.SS",
\* which is not the configured symbol "399001.SZ".
SimIndexBase ==
    [s \in {"000001.SS", "399001.SS", "399006.SZ", "000300.SS", "000016.SS"} |->
        CASE s = "000001.SS" -> [close |-> 287730, change_percent |-> 15]
          [] s = "399001.SS" -> [close |-> 886382, change_percent |-> 32]
          [] s = "399006.SZ" -> [close |-> 162356, change_percent |-> -28]
          [] s = "000300.SS" -> [close |-> 352585, change_percent |-> 22]
          [] s = "000016.SS" -> [close |-> 243112, change_percent |-> 18]]

\* The display name get_market_indices passes for each index.
IndexName(symbol) ==
    CASE symbol = "000001.SS" -> "SSE Composite"
      [] symbol = "399001.SZ" -> "SZSE Component"
      [] symbol = "399006.SZ" -> "ChiNext"
      [] symbol = "000300.SS" -> "CSI 300"
      [] symbol = "000016.SS" -> "SSE 50"
      [] symbol = "^DJI"      -> "Dow Jones Industrial Average"
      [] symbol = "^IXIC"     -> "Nasdaq Composite"
      [] symbol = "^GSPC"     -> "S&P 500"
      [] OTHER                -> symbol

_get_simulated_index_data(symbol, market) ==
    LET base == IF symbol \in DOMAIN SimIndexBase THEN SimIndexBase[symbol]
                ELSE [close |-> 300000, change_percent |-> 0]
    IN  [symbol |-> symbol, name |-> IndexName(symbol),
         source |-> "Simulated (API unavailable)",
         timestamp |-> now, close |-> base.close,
         change_percent |-> base.change_percent, market |-> market,
         note |-> "simulated data"]

\* A faulty variant: the pseudo-random figures are drawn from the clock as
\* well as from the symbol.
_get_simulated_stock_data_clock(symbol, market) ==
    LET hash_val == Abs(Hash(symbol)) + 7 * now
    IN  [symbol |-> symbol, source |-> "Simulated", timestamp |-> now,
         close |-> ((hash_val % 5000) + 10) * 100,
         change_percent |-> (hash_val % 200) - 100, market |-> market,
         note |-> "simulated data"]

\* base_price is a whole number of yuan; change_percent is
\* ((hash_val % 200) - 100) / 100.
_get_simulated_stock_data(symbol, market) ==
    LET hash_val == Abs(Hash(symbol))
    IN  [symbol |-> symbol, source |-> "Simulated", timestamp |-> now,
         close |-> ((hash_val % 5000) + 10) * 100,
         change_percent |-> (hash_val % 200) - 100, market |-> market,
         note |-> "simulated data"]

\* The market a symbol's suffix names (_get_stock_data, get_market_indices).
CNIndexMarket(symbol) ==
    CASE symbol \in {"000001.SS", "000016.SS"} -> "Shanghai"
      [] symbol \in {"399001.SZ", "399006.SZ"} -> "Shenzhen"
      [] OTHER -> "Shanghai-Shenzhen"

CNStockMarket(symbol) ==
    IF symbol \in {"300750.SZ"} THEN "Shenzhen" ELSE "Shanghai"

-----------------------------------------------------------------------------
(* The upstream sources *)

\* What an upstream endpoint does with the request for one symbol.
\*   Fail        the connection fails on every attempt
\*   HttpError   every attempt is answered with an HTTP error status
\*   NoChart     a decoded payload without the expected top-level key
\*   NullResult  {"chart": {"result": null}}    (Yahoo's answer to a bad symbol)
\*   EmptyResult {"chart": {"result": []}}
\*   Live1       a chart with a single day
\*   Live2       a chart with two days
\*   NoData .. Live   the same for the East Money endpoint; NullStock is
\*               {"data": {"stock": null}}
YahooFaults    == {"Fail", "HttpError", "NoChart", "NullResult", "EmptyResult", "Live1"}
YahooOutcomes  == YahooFaults \cup {"Live2"}
EastFaults     == {"Fail", "HttpError", "NoData", "NullData", "NoStock",
                   "NullStock"}
EastOutcomes   == EastFaults \cup {"Live"}

\* The request raised requests.RequestException on every attempt.
RequestFailed(o) == o \in {"Fail", "HttpError"}

\* The day rows of a live Yahoo chart (oldest first).
YahooChart(o) ==
    [timestamp |-> IF o = "Live1" THEN <<86400>> ELSE <<0, 86400>>,
     open      |-> IF o = "Live1" THEN <<204500>> ELSE <<203900, 204500>>,
     close     |-> IF o = "Live1" THEN <<205030>> ELSE <<204120, 205030>>,
     meta      |-> [previousClose |-> 204120]]

\* response.json() of the Yahoo chart endpoint.
YahooPayload(o) ==
    CASE o = "NoChart"     -> [finance |-> NoneVal]
      [] o = "NullResult"  -> [chart |-> [result |-> [null |-> TRUE]]]
      [] o = "EmptyResult" -> [chart |-> [result |-> [list |-> <<>>]]]
      [] OTHER             -> [chart |-> [result |-> [list |-> <<YahooChart(o)>>]]]

\* response.json() of the East Money quote endpoint.
EastPayload(o) ==
    CASE o = "NoData"   -> [rc |-> 0]
      [] o = "NullData" -> [data |-> [null |-> TRUE]]
      [] o = "NoStock"  -> [data |-> [dict |-> [f43 |-> 287000]]]
      [] o = "NullStock" -> [data |-> [dict |-> [stock |-> NoneVal]]]
      [] OTHER          -> [data |-> [dict |-> [stock |->
                               [f57 |-> 287730, f58 |-> "name", f163 |-> 15]]]]

\* _make_request: the decoded payload of the first attempt that succeeds, None
\* when every one of the `retries` attempts raised RequestException.
_make_request(source, o) ==
    IF RequestFailed(o) THEN NoneVal
    ELSE IF source = "yahoo" THEN YahooPayload(o) ELSE EastPayload(o)

\* data["chart"]["result"][0] raises TypeError on null and IndexError on [].
ChartSubscriptRaises(data) ==
    \/ "null" \in DOMAIN data.chart.result
    \/ data.chart.result.list = <<>>

\* `data and "chart" in data and "result" in data["chart"]`
HasChartResult(data) ==
    /\ data # NoneVal
    /\ "chart" \in DOMAIN data
    /\ "result" \in DOMAIN data.chart

\* The error quote the Yahoo fetchers return when there is no chart.
ErrorQuote(symbol) ==
    [symbol |-> symbol, source |-> "Yahoo Finance", error |-> "no data",
     timestamp |-> now]

\* (a - b) / b * 100, in hundredths of a percent (rounded down).
PctChange(a, b) == ((a - b) * 10000) \div b

-----------------------------------------------------------------------------
(* integrations/gold_api.py *)

\* get_gold_price_yahoo: a quote, or Raised when the subscript raises.
get_gold_price_yahoo(symbol, o) ==
    LET data == _make_request("yahoo", o) IN
    IF HasChartResult(data)
    THEN IF ChartSubscriptRaises(data) THEN Raised
         ELSE LET result == data.chart.result.list[1]
                  n      == Len(result.timestamp)
                  price_data ==
                      [symbol |-> symbol, source |-> "Yahoo Finance",
                       timestamp |-> result.timestamp[n],
                       close |-> result.close[n]]
              IN  IF n > 1
                  THEN price_data @@
                       [prev_close |-> result.close[n - 1],
                        change |-> result.close[n] - result.close[n - 1],
                        change_percent |->
                            PctChange(result.close[n], result.close[n - 1])]
                  ELSE price_data
    ELSE ErrorQuote(symbol)

\* get_gold_price_spot: fixed figures, 2045.50 against 2032.80.
get_gold_price_spot ==
    [symbol |-> "XAUUSD", source |-> "Spot Gold", timestamp |-> now,
     price |-> 204550, previous_close |-> 203280,
     change |-> 204550 - 203280,
     change_percent |-> PctChange(204550, 203280), type |-> "spot"]

\* get_gold_news_sentiment: three fixed items.
get_gold_news_sentiment ==
    <<[source |-> "Reuters",   sentiment |-> "neutral"],
      [source |-> "Bloomberg", sentiment |-> "positive"],
      [source |-> "CNBC",      sentiment |-> "negative"]>>

\* `x.get("close")` is truthy: the key is there with a non-zero number.
Truthy(q, key) == key \in DOMAIN q /\ q[key] # 0

\* The body of GoldDataCollector.collect_all up to the save; up maps each
\* symbol to its upstream outcome.
Gold_collect_all(up) ==
    LET futures_data == get_gold_price_yahoo("GC=F", up["GC=F"]) IN
    IF futures_data = Raised
    THEN [raised |-> TRUE, log |-> <<"GC=F">>]
    ELSE [raised |-> FALSE, log |-> <<"GC=F">>,
          result |->
            [collection_time |-> now,
             markets  |-> [futures |-> futures_data, spot |-> get_gold_price_spot],
             news     |-> get_gold_news_sentiment,
             metadata |-> [data_sources |-> <<"Yahoo Finance">>,
                           collection_status |->
                               IF Truthy(futures_data, "close")
                               THEN "success" ELSE "partial"]]]

-----------------------------------------------------------------------------
(* integrations/stocks_usa_api.py *)

\* A faulty variant: a request that failed on every attempt is subscripted
\* like a payload, which raises.
US_get_index_data_strict(symbol, o) ==
    LET data == _make_request("yahoo", o) IN
    IF data = NoneVal THEN Raised
    ELSE IF HasChartResult(data)
    THEN IF ChartSubscriptRaises(data) THEN Raised
         ELSE LET result == data.chart.result.list[1]
                  n      == Len(result.timestamp)
              IN  [symbol |-> symbol, name |-> IndexName(symbol),
                   source |-> "Yahoo Finance",
                   timestamp |-> result.timestamp[n],
                   close |-> result.close[n],
                   previous_close |-> result.meta.previousClose]
    ELSE ErrorQuote(symbol) @@ [name |-> IndexName(symbol)]

\* _get_index_data: the quote has a close and a previous close but no
\* change_percent.
US_get_index_data(symbol, o) ==
    LET data == _make_request("yahoo", o) IN
    IF HasChartResult(data)
    THEN IF ChartSubscriptRaises(data) THEN Raised
         ELSE LET result == data.chart.result.list[1]
                  n      == Len(result.timestamp)
              IN  [symbol |-> symbol, name |-> IndexName(symbol),
                   source |-> "Yahoo Finance",
                   timestamp |-> result.timestamp[n],
                   close |-> result.close[n],
                   previous_close |-> result.meta.previousClose]
    ELSE ErrorQuote(symbol) @@ [name |-> IndexName(symbol)]

\* _get_stock_data: change and change_percent are taken against the day's open.
US_get_stock_data(symbol, o) ==
    LET data == _make_request("yahoo", o) IN
    IF HasChartResult(data)
    THEN IF ChartSubscriptRaises(data) THEN Raised
         ELSE LET result == data.chart.result.list[1]
                  n      == Len(result.timestamp)
              IN  [symbol |-> symbol, source |-> "Yahoo Finance",
                   timestamp |-> result.timestamp[n],
                   price |-> result.close[n],
                   open |-> result.open[n],
                   change |-> result.close[n] - result.open[n],
                   change_percent |-> PctChange(result.close[n], result.open[n])]
    ELSE ErrorQuote(symbol)

\* The state of a `for symbol in symbols` loop that fills a dict: the dict,
\* the symbols requested so far, and whether a fetch raised.
EmptyLoop == [raised |-> FALSE, result |-> <<>>, log |-> <<>>]

\* get_market_indices: result[symbol] = _get_index_data(symbol, name).
RECURSIVE US_get_market_indices(_, _, _)
US_get_market_indices(up, i, acc) ==
    IF acc.raised \/ i > Len(USIndices) THEN acc
    ELSE LET symbol == USIndices[i]
             data   == US_get_index_data(symbol, up[symbol])
         IN  US_get_market_indices(up, i + 1,
                 [raised |-> data = Raised,
                  result |-> IF data = Raised THEN acc.result
                             ELSE (symbol :> data) @@ acc.result,
                  log    |-> Append(acc.log, symbol)])

\* get_popular_stocks: result[symbol] = _get_stock_data(symbol).
RECURSIVE US_get_popular_stocks(_, _, _)
US_get_popular_stocks(up, i, acc) ==
    IF acc.raised \/ i > Len(USStocks) THEN acc
    ELSE LET symbol == USStocks[i]
             data   == US_get_stock_data(symbol, up[symbol])
         IN  US_get_popular_stocks(up, i + 1,
                 [raised |-> data = Raised,
                  result |-> IF data = Raised THEN acc.result
                             ELSE (symbol :> data) @@ acc.result,
                  log    |-> Append(acc.log, symbol)])

\* get_market_sentiment: fixed figures.
US_get_market_sentiment ==
    [vix_index |-> [value |-> 1425], put_call_ratio |-> [value |-> 85],
     fear_greed_index |-> [value |-> 65, level |-> "Greed"]]

\* `if indices_data`: a dict is truthy when it has a key.
NonEmptyDict(d) == DOMAIN d # {}

\* The body of USStocksDataCollector.collect_all up to the save.
US_collect_all(up) ==
    LET indices == US_get_market_indices(up, 1, EmptyLoop) IN
    IF indices.raised THEN [raised |-> TRUE, log |-> indices.log]
    ELSE LET stocks == US_get_popular_stocks(up, 1, EmptyLoop) IN
         IF stocks.raised
         THEN [raised |-> TRUE, log |-> indices.log \o stocks.log]
         ELSE [raised |-> FALSE, log |-> indices.log \o stocks.log,
               result |->
                 [collection_time |-> now,
                  markets   |-> [indices |-> indices.result,
                                 popular_stocks |-> stocks.result],
                  sentiment |-> US_get_market_sentiment,
                  metadata  |-> [data_sources |-> <<"Yahoo Finance">>,
                                 collection_status |->
                                     IF NonEmptyDict(indices.result)
                                     THEN "success" ELSE "partial"]]]

-----------------------------------------------------------------------------
(* integrations/stocks_cn_api.py *)

\* data["data"]["stock"] raises TypeError on null and KeyError without "stock";
\* both are caught.
StockSubscriptRaises(data) ==
    \/ "null" \in DOMAIN data.data
    \/ "stock" \notin DOMAIN data.data.dict

\* stock_data.get(...) on a null "stock" raises AttributeError, which the
\* `except (KeyError, TypeError)` does not catch.
StockGetRaises(data) == data.data.dict.stock = NoneVal

\* _get_index_data: the simulated quote whenever East Money gave no usable
\* payload, or Raised.
CN_get_index_data(symbol, o) ==
    LET data == _make_request("eastmoney", o) IN
    IF data = NoneVal \/ "data" \notin DOMAIN data
    THEN _get_simulated_index_data(symbol, CNIndexMarket(symbol))
    ELSE IF StockSubscriptRaises(data)
    THEN _get_simulated_index_data(symbol, CNIndexMarket(symbol))
    ELSE IF StockGetRaises(data) THEN Raised
    ELSE LET stock_data == data.data.dict.stock
         IN  [symbol |-> symbol, name |-> IndexName(symbol),
              source |-> "East Money", timestamp |-> now,
              close |-> stock_data.f57, change_percent |-> stock_data.f163,
              market |-> CNIndexMarket(symbol)]

\* _get_stock_data
CN_get_stock_data(symbol, o) ==
    LET data == _make_request("eastmoney", o) IN
    IF data # NoneVal /\ "data" \in DOMAIN data /\ ~StockSubscriptRaises(data)
    THEN IF StockGetRaises(data) THEN Raised ELSE
         LET stock_data == data.data.dict.stock
         IN  [symbol |-> symbol, source |-> "East Money", timestamp |-> now,
              close |-> stock_data.f57, change_percent |-> stock_data.f163,
              market |-> CNStockMarket(symbol)]
    ELSE _get_simulated_stock_data(symbol, CNStockMarket(symbol))

\* get_market_indices: result[symbol] = _get_index_data(...).
RECURSIVE CN_get_market_indices(_, _, _)
CN_get_market_indices(up, i, acc) ==
    IF acc.raised \/ i > Len(CNIndices) THEN acc
    ELSE LET symbol == CNIndices[i]
             data   == CN_get_index_data(symbol, up[symbol])
         IN  CN_get_market_indices(up, i + 1,
                 [raised |-> data = Raised,
                  result |-> IF data = Raised THEN acc.result
                             ELSE (symbol :> data) @@ acc.result,
                  log    |-> Append(acc.log, symbol)])

\* get_blue_chip_stocks: the quote is fetched, and stored only
\* `if symbol in result`.
RECURSIVE CN_get_blue_chip_stocks(_, _, _)
CN_get_blue_chip_stocks(up, i, acc) ==
    IF acc.raised \/ i > Len(CNBlueChips) THEN acc
    ELSE LET symbol == CNBlueChips[i]
             data   == CN_get_stock_data(symbol, up[symbol])
         IN  CN_get_blue_chip_stocks(up, i + 1,
                 [raised |-> data = Raised,
                  result |-> IF data # Raised /\ symbol \in DOMAIN acc.result
                             THEN (symbol :> data) @@ acc.result
                             ELSE acc.result,
                  log    |-> Append(acc.log, symbol)])

\* get_market_sentiment: fixed figures (turnover in hundredths of a percent).
CN_get_market_sentiment ==
    [main_inflow |-> [north_money |-> [interpretation |-> "net inflow"],
                      south_money |-> [interpretation |-> "net inflow"]],
     turnover_rate |-> [shanghai |-> 85, shenzhen |-> 123]]

\* get_policy_news: two fixed items.
CN_get_policy_news ==
    <<[source |-> "central bank", impact |-> "neutral"],
      [source |-> "statistics bureau", impact |-> "positive"]>>

\* The body of ChinaStocksDataCollector.collect_all up to the save.
CN_collect_all(up) ==
    LET indices == CN_get_market_indices(up, 1, EmptyLoop) IN
    IF indices.raised THEN [raised |-> TRUE, log |-> indices.log]
    ELSE LET stocks == CN_get_blue_chip_stocks(up, 1, EmptyLoop) IN
         IF stocks.raised
         THEN [raised |-> TRUE, log |-> indices.log \o stocks.log]
         ELSE [raised |-> FALSE, log |-> indices.log \o stocks.log,
               result |->
                 [collection_time |-> now,
                  markets     |-> [indices |-> indices.result,
                                   blue_chip_stocks |-> stocks.result],
                  sentiment   |-> CN_get_market_sentiment,
                  policy_news |-> CN_get_policy_news,
                  metadata    |-> [data_sources |->
                                       <<"East Money", "Sina Finance">>,
                                   collection_status |-> "success",
                                   note |-> "part of the data is simulated"]]]

-----------------------------------------------------------------------------
(* The collectors, side by side *)

Markets == <<"gold", "stocks_usa", "stocks_cn">>

\* The sub-markets of each collector and their configured symbols.
SubMarkets(m) ==
    CASE m = "gold"       -> [futures |-> GoldSymbols]
      [] m = "stocks_usa" -> [indices |-> USIndices, popular_stocks |-> USStocks]
      [] m = "stocks_cn"  -> [indices |-> CNIndices, blue_chip_stocks |-> CNBlueChips]

\* Every symbol collector m requests, in the order it requests them.
SymbolsOf(m) ==
    CASE m = "gold"       -> GoldSymbols
      [] m = "stocks_usa" -> USIndices \o USStocks
      [] m = "stocks_cn"  -> CNIndices \o CNBlueChips

OutcomesOf(m) == IF m = "stocks_cn" THEN EastOutcomes ELSE YahooOutcomes
FaultsOf(m)   == IF m = "stocks_cn" THEN EastFaults ELSE YahooFaults
LiveOf(m)     == IF m = "stocks_cn" THEN "Live" ELSE "Live2"

collect_all(m, up) ==
    CASE m = "gold"       -> Gold_collect_all(up)
      [] m = "stocks_usa" -> US_collect_all(up)
      [] m = "stocks_cn"  -> CN_collect_all(up)

\* json.dump and json.load: a document holds the text of a value; on the
\* values the collectors build (string keys, numbers, lists) loading the text
\* gives the value back.
JsonDump(data) == [json |-> data]
JsonLoad(doc)  == doc.json

\* The store of a collector before its first run.
NoFiles == [latest |-> NoneVal, dated |-> <<>>]

\* A faulty variant: the latest pointer is written once and never overwritten.
_save_data_keep(store, data) ==
    [dated  |-> (now :> JsonDump(data)) @@ store.dated,
     latest |-> IF store.latest = NoneVal THEN JsonDump(data) ELSE store.latest]

\* _save_data: <market>_data_<timestamp>.json, then latest_<market>_data.json.
_save_data(store, data) ==
    [dated  |-> (now :> JsonDump(data)) @@ store.dated,
     latest |-> JsonDump(data)]

\* get_latest_data
get_latest_data(store) ==
    IF store.latest # NoneVal THEN JsonLoad(store.latest) ELSE NoneVal

-----------------------------------------------------------------------------
(* analysis/market_analyzer.py *)

\* The analyzer reads its numbers with d.get(key), which gives None for a
\* missing key.  Such an optional number is <<>> for None and <<n>> for n.
Get(d, key) == IF key \in DOMAIN d THEN <<d[key]>> ELSE <<>>

\* d.get(key, {}) and d.get(key, [])
GetDict(d, key) == IF key \in DOMAIN d THEN d[key] ELSE <<>>

\* Python's truth value of an optional number: None and 0 are false.
IsTruthy(v) == v # <<>> /\ v # <<0>>

\* a or b
PyOr(a, b) == IF IsTruthy(a) THEN a ELSE b

\* round(x, 2) of a value x given in ten-thousandths, in hundredths.  A value
\* that lies half-way between two hundredths goes up or down with the binary
\* representation of the product; tie (0 or 1) is the way it goes.
RoundCents(x, tie) ==
    LET q == x \div 100
        r == x % 100
    IN  IF r > 50 THEN q + 1 ELSE IF r < 50 THEN q ELSE q + tie

\* A faulty variant: the three levels in the opposite order.
_calculate_support_levels_reversed(price, tie) ==
    IF price = <<>> THEN <<>>
    ELSE <<RoundCents(price[1] * 92, tie), RoundCents(price[1] * 95, tie),
           RoundCents(price[1] * 98, tie)>>

\* _calculate_support_levels: round(price * 0.98, 2), 0.95 and 0.92.
_calculate_support_levels(price, tie) ==
    IF price = <<>> THEN <<>>
    ELSE <<RoundCents(price[1] * 98, tie), RoundCents(price[1] * 95, tie),
           RoundCents(price[1] * 92, tie)>>

\* _calculate_resistance_levels: round(price * 1.02, 2), 1.05 and 1.08.
_calculate_resistance_levels(price, tie) ==
    IF price = <<>> THEN <<>>
    ELSE <<RoundCents(price[1] * 102, tie), RoundCents(price[1] * 105, tie),
           RoundCents(price[1] * 108, tie)>>

\* _analyze_gold_technicals: the two indicator values depend on the futures
\* close; every interpretation is a fixed text.
_analyze_gold_technicals(futures_data) ==
    LET current_price == Get(futures_data, "close") IN
    [ma_trend |-> IF IsTruthy(current_price)
                  THEN "short averages rising" ELSE "trend unclear",
     rsi  |-> [value |-> IF IsTruthy(current_price) THEN <<5800>> ELSE <<>>,
               interpretation |-> "in the strong zone"],
     macd |-> [value |-> IF IsTruthy(current_price) THEN <<250>> ELSE <<>>,
               interpretation |-> "bullish signal"],
     bollinger_bands |-> [position |-> "above the middle band",
                          interpretation |-> "price is strong"]]

\* The number of news items whose tag is `tag`; an item without a tag counts
\* as neutral.
CountTagged(news, tag) ==
    Cardinality({i \in 1..Len(news) :
                    (IF "sentiment" \in DOMAIN news[i]
                     THEN news[i].sentiment ELSE "neutral") = tag})

\* A faulty variant: a tie counts as positive.
_analyze_market_sentiment_ge(news) ==
    IF news = <<>> THEN [overall |-> "neutral", confidence |-> "low"]
    ELSE LET positive == CountTagged(news, "positive")
             negative == CountTagged(news, "negative")
         IN  [overall |-> IF positive >= negative THEN "positive :)"
                          ELSE "negative :(",
              positive_count |-> positive, negative_count |-> negative,
              confidence |-> "medium"]

\* _analyze_market_sentiment
_analyze_market_sentiment(news) ==
    IF news = <<>> THEN [overall |-> "neutral", confidence |-> "low"]
    ELSE LET positive == CountTagged(news, "positive")
             negative == CountTagged(news, "negative")
         IN  [overall |-> IF positive > negative THEN "positive :)"
                          ELSE IF negative > positive THEN "negative :("
                          ELSE "neutral :|",
              positive_count |-> positive, negative_count |-> negative,
              confidence |-> IF positive = negative THEN "low" ELSE "medium"]

\* _generate_outlook: `change and change > 0.5`, `change and change < -0.5`.
_generate_outlook(market, price, change) ==
    LET sentiment == IF IsTruthy(change) /\ change[1] > 50 THEN "bullish"
                     ELSE IF IsTruthy(change) /\ change[1] < -50 THEN "bearish"
                     ELSE "neutral"
    IN  IF market = "gold" THEN <<"gold", sentiment>> ELSE <<"unclear">>

\* _generate_recommendation
_generate_recommendation(market, change) ==
    IF IsTruthy(change) /\ change[1] > 100
    THEN [action |-> "do not chase", risk_level |-> "medium"]
    ELSE IF IsTruthy(change) /\ change[1] < -100
    THEN [action |-> "watch the support", risk_level |-> "medium-high"]
    ELSE [action |-> "wait and see", risk_level |-> "low"]

\* analyze_gold_market.  previous_close is computed and not used.
analyze_gold_market(gold_data, tie) ==
    LET futures == GetDict(GetDict(gold_data, "markets"), "futures")
        spot    == GetDict(GetDict(gold_data, "markets"), "spot")
        current_price  == PyOr(Get(futures, "close"), Get(spot, "price"))
        change_percent == PyOr(Get(futures, "change_percent"),
                               Get(spot, "change_percent"))
    IN  [current_price     |-> current_price,
         change_percent    |-> change_percent,
         trend             |-> _determine_trend(change_percent),
         support_levels    |-> _calculate_support_levels(current_price, tie),
         resistance_levels |-> _calculate_resistance_levels(current_price, tie),
         technical_indicators |-> _analyze_gold_technicals(futures),
         sentiment      |-> _analyze_market_sentiment(GetDict(gold_data, "news")),
         outlook        |-> _generate_outlook("gold", current_price, change_percent),
         recommendation |-> _generate_recommendation("gold", change_percent)]

\* The index rows an equity analysis keeps: one for every index quote that
\* has a "close"; data.get(...) leaves None where the quote has no such key.
IndexRows(indices, with_turnover) ==
    [s \in {t \in DOMAIN indices : "close" \in DOMAIN indices[t]} |->
        LET row == [name           |-> Get(indices[s], "name"),
                    close          |-> Get(indices[s], "close"),
                    change_percent |-> Get(indices[s], "change_percent"),
                    trend |-> _determine_trend(Get(indices[s], "change_percent"))]
        IN  IF with_turnover
            THEN row @@ [turnover |-> Get(indices[s], "volume")] ELSE row]

\* The rows that enter `changes`: those with a "close" key.
ChangeRows(indices) == {s \in DOMAIN indices : "close" \in DOMAIN indices[s]}

\* d.get("change_percent", 0): the default is used for a missing key only.
ChangeOrZero(d) ==
    IF "change_percent" \in DOMAIN d THEN d.change_percent ELSE <<0>>

\* sum(changes), and every comparison of a change with a number, raises
\* TypeError when a change is None.
ChangesRaise(indices) ==
    \E s \in ChangeRows(indices) : ChangeOrZero(indices[s]) = <<>>

\* sum(changes)
RECURSIVE SumChanges(_, _)
SumChanges(indices, S) ==
    IF S = {} THEN 0
    ELSE LET s == CHOOSE t \in S : TRUE
         IN  ChangeOrZero(indices[s])[1] + SumChanges(indices, S \ {s})

\* avg_change > bound (bound in hundredths of a percent), avg_change being
\* sum(changes) / len(changes), and 0 when there are no changes.
AvgAbove(indices, bound) ==
    SumChanges(indices, ChangeRows(indices))
        > bound * Cardinality(ChangeRows(indices))

AvgBelow(indices, bound) ==
    SumChanges(indices, ChangeRows(indices))
        < bound * Cardinality(ChangeRows(indices))

\* _assess_market_status (for changes that are all numbers)
_assess_market_status(indices) ==
    IF ChangeRows(indices) = {} THEN "insufficient data"
    ELSE IF AvgAbove(indices, 50) THEN "strong rise"
    ELSE IF AvgAbove(indices, 10) THEN "mild rise"
    ELSE IF AvgBelow(indices, -50) THEN "weak fall"
    ELSE IF AvgBelow(indices, -10) THEN "mild pullback"
    ELSE "flat"

\* _calculate_market_breadth
_calculate_market_breadth(indices) ==
    IF ChangeRows(indices) = {}
    THEN [advance |-> 0, decline |-> 0, breadth |-> "unknown"]
    ELSE LET advance == Cardinality({s \in ChangeRows(indices) :
                                        ChangeOrZero(indices[s])[1] > 0})
             decline == Cardinality({s \in ChangeRows(indices) :
                                        ChangeOrZero(indices[s])[1] < 0})
         IN  [advance |-> advance, decline |-> decline,
              breadth |-> IF advance + decline > 0
                          THEN "advance:decline" ELSE "insufficient data"]

\* _generate_us_market_outlook
_generate_us_market_outlook(indices) ==
    IF AvgAbove(indices, 30) THEN "indices up together"
    ELSE IF AvgBelow(indices, -30) THEN "indices down together"
    ELSE "range-bound"

\* _generate_us_recommendation
_generate_us_recommendation(indices) ==
    IF AvgAbove(indices, 100)
    THEN [action |-> "reduce", risk_level |-> "medium"]
    ELSE IF AvgBelow(indices, -100)
    THEN [action |-> "buy the dip", risk_level |-> "medium-high"]
    ELSE [action |-> "hold and watch", risk_level |-> "low"]

\* analyze_us_stocks.  The leading and lagging sectors (the three stocks
\* with the largest and smallest change) are left out.
analyze_us_stocks(stocks_data) ==
    LET indices   == GetDict(GetDict(stocks_data, "markets"), "indices")
        sentiment == GetDict(stocks_data, "sentiment")
        index_analysis == IndexRows(indices, FALSE)
        fear_greed == GetDict(sentiment, "fear_greed_index")
    IN  IF ChangesRaise(index_analysis) THEN Raised
        ELSE
        [market_overview |->
            [status  |-> _assess_market_status(index_analysis),
             breadth |-> _calculate_market_breadth(index_analysis)],
         index_analysis |-> index_analysis,
         market_sentiment |->
            [vix        |-> GetDict(sentiment, "vix_index"),
             fear_greed |-> fear_greed,
             overall    |-> IF (IF "value" \in DOMAIN fear_greed
                                THEN fear_greed.value ELSE 50) > 50
                            THEN "optimistic" ELSE "cautious"],
         outlook        |-> _generate_us_market_outlook(index_analysis),
         recommendation |-> _generate_us_recommendation(index_analysis)]

\* The change of the first row named after the Shanghai composite, as
\* next(...) finds it; <<0>> is next's default.
ShanghaiChange(indices) ==
    LET sh == {s \in DOMAIN indices : indices[s].name = <<"SSE Composite">>}
    IN  IF sh = {} THEN <<0>>
        ELSE indices[CHOOSE s \in sh : TRUE].change_percent

\* _assess_cn_market_status (for a Shanghai change that is a number)
_assess_cn_market_status(indices) ==
    IF ChangeRows(indices) = {} THEN "insufficient data"
    ELSE LET sh_change == ShanghaiChange(indices)[1] IN
         IF sh_change > 50 THEN "Shanghai firmer"
         ELSE IF sh_change > 10 THEN "Shanghai mildly up"
         ELSE IF sh_change < -50 THEN "Shanghai under pressure"
         ELSE IF sh_change < -10 THEN "Shanghai slightly down"
         ELSE "Shanghai flat"

\* _generate_cn_market_outlook
_generate_cn_market_outlook(indices) ==
    IF AvgAbove(indices, 20) THEN "climbing"
    ELSE IF AvgBelow(indices, -20) THEN "pulling back"
    ELSE "narrow range"

\* _generate_cn_recommendation
_generate_cn_recommendation(indices) ==
    IF AvgAbove(indices, 50)
    THEN [action |-> "reduce", risk_level |-> "medium"]
    ELSE IF AvgBelow(indices, -50)
    THEN [action |-> "build in batches", risk_level |-> "medium-high"]
    ELSE [action |-> "hold", risk_level |-> "low"]

\* analyze_cn_stocks
analyze_cn_stocks(cn_data) ==
    LET indices   == GetDict(GetDict(cn_data, "markets"), "indices")
        sentiment == GetDict(cn_data, "sentiment")
        index_analysis == IndexRows(indices, TRUE)
    IN  IF ChangesRaise(index_analysis) THEN Raised
        ELSE
        [market_overview |->
            [status |-> _assess_cn_market_status(index_analysis),
             turnover_rate |-> GetDict(sentiment, "turnover_rate")],
         index_analysis |-> index_analysis,
         capital_flow |->
            [north_money |-> GetDict(GetDict(sentiment, "main_inflow"),
                                     "north_money"),
             south_money |-> GetDict(GetDict(sentiment, "main_inflow"),
                                     "south_money")],
         policy_news |-> GetDict(cn_data, "policy_news"),
         outlook        |-> _generate_cn_market_outlook(index_analysis),
         recommendation |-> _generate_cn_recommendation(index_analysis)]

\* _generate_global_overview
_generate_global_overview(gold, us, cn) ==
    LET fear_greed == GetDict(GetDict(us, "market_sentiment"), "fear_greed")
    IN  [overall_status |-> IF (IF "value" \in DOMAIN fear_greed
                                THEN fear_greed.value ELSE 50) > 55
                            THEN "risk appetite back" ELSE "cautious"]

\* _generate_cross_market_comparison: three literals, whatever the analyses.
_generate_cross_market_comparison(gold, us, cn) ==
    [performance_ranking |-> <<"stocks_usa", "stocks_cn", "gold">>,
     allocation_suggestion |->
        [conservative |-> "60 US 30 gold 10 CN",
         balanced     |-> "50 US 25 CN 25 gold",
         aggressive   |-> "60 CN 30 US 10 gold"]]

\* _generate_key_insights: the f-strings format the name `sentiment`, which
\* is bound in no enclosing scope, so every call raises NameError.
_generate_key_insights(gold, us, cn) == Raised

\* _assess_global_risk
_assess_global_risk(gold, us, cn) == [overall_risk_level |-> "medium"]

\* MarketAnalyzer.generate_comprehensive_analysis: the three analyses, then
\* the overview, the comparison, the insights and the risk assessment; an
\* exception of any of them leaves the call.
generate_comprehensive_analysis(gold_data, us_stocks_data, cn_stocks_data, tie) ==
    LET gold_analysis == analyze_gold_market(gold_data, tie)
        us_analysis   == analyze_us_stocks(us_stocks_data)
        cn_analysis   == analyze_cn_stocks(cn_stocks_data)
    IN  IF us_analysis = Raised \/ cn_analysis = Raised THEN Raised
        ELSE IF _generate_key_insights(gold_analysis, us_analysis, cn_analysis)
                    = Raised
        THEN Raised
        ELSE [global_overview |->
                  _generate_global_overview(gold_analysis, us_analysis, cn_analysis),
              gold_market |-> gold_analysis,
              us_market   |-> us_analysis,
              cn_market   |-> cn_analysis,
              cross_market_comparison |->
                  _generate_cross_market_comparison(gold_analysis, us_analysis,
                                                    cn_analysis),
              key_insights |->
                  _generate_key_insights(gold_analysis, us_analysis, cn_analysis),
              risk_assessment |->
                  _assess_global_risk(gold_analysis, us_analysis, cn_analysis)]

-----------------------------------------------------------------------------
(* Markets *)

MarketSet == Range(Markets)

-----------------------------------------------------------------------------
(* main.py: the orchestrator *)

\* _get_fallback_gold_data
_get_fallback_gold_data ==
    [markets |-> [futures |-> [close |-> 205000, change_percent |-> 30,
                               source |-> "Fallback"]],
     collection_time |-> now]

\* _get_fallback_us_stocks_data
_get_fallback_us_stocks_data ==
    [markets |-> [indices |->
        ("^DJI"  :> [name |-> "Dow Jones", close |-> 3800000,
                     change_percent |-> 20]) @@
        ("^IXIC" :> [name |-> "Nasdaq", close |-> 1500000,
                     change_percent |-> 40])],
     collection_time |-> now]

\* _get_fallback_cn_stocks_data
_get_fallback_cn_stocks_data ==
    [markets |-> [indices |->
        ("000001.SS" :> [name |-> "SSE Composite", close |-> 287700,
                         change_percent |-> 15])],
     collection_time |-> now]

\* The fallback snapshot collect_data substitutes for market m.
FallbackSnapshot(m) ==
    CASE m = "gold"       -> _get_fallback_gold_data
      [] m = "stocks_usa" -> _get_fallback_us_stocks_data
      [] m = "stocks_cn"  -> _get_fallback_cn_stocks_data

\* _get_fallback_analysis.  As in the analyses of the analyzer, a number is
\* <<n>> and None is <<>>.
_get_fallback_analysis ==
    [gold_market |->
        [current_price |-> <<205000>>, change_percent |-> <<30>>,
         trend |-> "flat", outlook |-> "unclear",
         recommendation |-> [action |-> "wait", risk_level |-> "low"]],
     us_market |->
        [index_analysis |->
            ("^DJI"  :> [close |-> <<3800000>>, change_percent |-> <<20>>]) @@
            ("^IXIC" :> [close |-> <<1500000>>, change_percent |-> <<40>>]),
         outlook |-> "mild rise",
         recommendation |-> [action |-> "hold", risk_level |-> "low"]],
     cn_market |->
        [index_analysis |->
            ("000001.SS" :> [close |-> <<287700>>, change_percent |-> <<15>>]),
         outlook |-> "range-bound",
         recommendation |-> [action |-> "hold", risk_level |-> "low"]]]

\* A faulty variant: every market's except clause substitutes the commodity
\* fallback.
collect_data_shared(m, r) ==
    IF r.raised THEN _get_fallback_gold_data ELSE r.result

\* One market's block of collect_data, r being the outcome of the market's
\* collect_all: `try: collected_data[m] = collect_all()` and
\* `except Exception: collected_data[m] = <the market's fallback>`.
collect_data(m, r) ==
    IF r.raised THEN FallbackSnapshot(m) ELSE r.result

\* _load_latest_data: get_latest_data of every collector in self.collectors;
\* a market without a collector, or without a stored snapshot, gets no key
\* (NoneVal here).
_load_latest_data(collectors, store) ==
    [m \in MarketSet |->
        IF m \in collectors THEN get_latest_data(store[m]) ELSE NoneVal]

\* analyze_data: the comprehensive analysis, saved and returned; the fallback
\* analysis (and nothing saved) when the analyzer raised.
analyze_data(data) ==
    LET a == generate_comprehensive_analysis(data["gold"], data["stocks_usa"],
                                             data["stocks_cn"], 0) IN
    IF a = Raised
    THEN [analysis |-> _get_fallback_analysis, saved |-> FALSE]
    ELSE [analysis |-> a, saved |-> TRUE]

\* _save_analysis_result: latest_analysis.json holds the analysis.
_save_analysis_result(a) == JsonDump(a)

\* _load_latest_analysis: the stored analysis, {} when there is no file.
_load_latest_analysis(file) ==
    IF file # NoneVal THEN JsonLoad(file) ELSE <<>>

\* The text of a number (in hundredths) under the formats .2f and +.2f: the
\* sign, the digits before the point and the two digits after it.
Fixed2(n, plus) ==
    [sign  |-> IF n < 0 THEN "-" ELSE IF plus THEN "+" ELSE "",
     whole |-> Abs(n) \div 100,
     cents |-> Abs(n) % 100]

\* The placeholder text.
NA == [text |-> "N/A"]

\* Formatting d.get(key, 'N/A') with .2f raises when the key is missing (the
\* default is a string: ValueError) and when it holds None (TypeError).
NumberFormatRaises(d, key) == GetDict(d, key) = <<>>

\* Formatting d.get(key, 0) with +.2f raises when the key holds None.
SignedFormatRaises(d, key) == key \in DOMAIN d /\ d[key] = <<>>

\* analysis.get(section, {}).get('index_analysis', {})
IndexAnalysis(a, section) == GetDict(GetDict(a, section), "index_analysis")

\* generate_daily_report raises: the commodity price is formatted with .2f,
\* and so are the close and the change-percent of every index row.
RenderRaises(a) ==
    \/ NumberFormatRaises(GetDict(a, "gold_market"), "current_price")
    \/ \E section \in {"us_market", "cn_market"} :
           \E s \in DOMAIN IndexAnalysis(a, section) :
               \/ NumberFormatRaises(IndexAnalysis(a, section)[s], "close")
               \/ SignedFormatRaises(IndexAnalysis(a, section)[s],
                                     "change_percent")

\* The index rows of one section of the report.
IndexTable(a, section) ==
    [s \in DOMAIN IndexAnalysis(a, section) |->
        LET data == IndexAnalysis(a, section)[s]
        IN  [close |-> Fixed2(data.close[1], FALSE),
             change_percent |->
                 Fixed2(IF "change_percent" \in DOMAIN data
                        THEN data.change_percent[1] ELSE 0, TRUE),
             trend |-> IF "trend" \in DOMAIN data THEN data.trend ELSE "N/A"]]

\* ReportGenerator.generate_daily_report: the cells of the commodity quote
\* table and of the two index tables, or Raised.
generate_daily_report(a) ==
    IF RenderRaises(a) THEN Raised
    ELSE LET gold == GetDict(a, "gold_market")
         IN  [current_price  |-> Fixed2(gold.current_price[1], FALSE),
              change_percent |->
                  IF GetDict(gold, "change_percent") = <<>> THEN NA
                  ELSE Fixed2(gold.change_percent[1], TRUE),
              trend    |-> IF "trend" \in DOMAIN gold THEN gold.trend ELSE "N/A",
              us_table |-> IndexTable(a, "us_market"),
              cn_table |-> IndexTable(a, "cn_market")]

\* generate_report: the path of the saved report, None when rendering or
\* saving raised.
generate_report(data, a, saveOk) ==
    IF generate_daily_report(a) = Raised \/ ~saveOk THEN NoneVal
    ELSE [path |-> "financial_report", stamp |-> now]

\* A faulty variant: the commands are run whether or not commits are enabled.
commit_to_github_always(enabled, failing) ==
    CASE failing = "other"  -> <<>>
      [] failing = "add"    -> <<"add">>
      [] failing = "commit" -> <<"add", "commit">>
      [] OTHER              -> <<"add", "commit", "push">>

\* commit_to_github: the git commands run, in order; nothing when commits are
\* disabled, and nothing after the command that fails.  `failing` is the
\* command that exits with an error, "other" when something else raises
\* before the first command is started (git cannot be executed), "none"
\* when all goes well.
commit_to_github(enabled, failing) ==
    IF ~enabled THEN <<>>
    ELSE CASE failing = "other"  -> <<>>
           [] failing = "add"    -> <<"add">>
           [] failing = "commit" -> <<"add", "commit">>
           [] OTHER              -> <<"add", "commit", "push">>

\* The ways a call of commit_to_github can go.
GitFailures == {"none", "add", "commit", "push", "other"}

\* A faulty variant: the failure of a git command leaves commit_to_github.
commit_to_github_raises_unguarded(enabled, failing) ==
    enabled /\ failing # "none"

\* commit_to_github lets an exception out: never.  Everything after the
\* enabled test is inside `try`, whose clauses `except CalledProcessError`
\* and `except Exception` print the failure and fall through to the return.
commit_to_github_raises(enabled, failing) == FALSE

\* str(e) of an exception that leaves a stage: its message, which says what
\* went wrong and not which stage was running.
ExceptionTexts == {"OSError"}

\* The stages of a run, in the order run_full_pipeline calls them.
Stages == <<"Collecting", "Analyzing", "Rendering", "Publishing", "Done">>

\* A faulty variant: the report is rendered before the analysis is made.
run_full_pipeline_render_first(stage, m, path) ==
    CASE stage = "Collecting" -> "Rendering"
      [] stage = "Rendering"  -> "Analyzing"
      [] stage = "Analyzing"  -> IF m = "auto" /\ path # NoneVal
                                 THEN "Publishing" ELSE "Done"
      [] stage = "Publishing" -> "Done"

\* run_full_pipeline: the stage that follows `stage` in a run of mode m
\* whose report path is `path`.  The commit is made in auto mode only, and
\* only when there is a report.
run_full_pipeline(stage, m, path) ==
    CASE stage = "Collecting" -> "Analyzing"
      [] stage = "Analyzing"  -> "Rendering"
      [] stage = "Rendering"  -> IF m = "auto" /\ path # NoneVal
                                 THEN "Publishing" ELSE "Done"
      [] stage = "Publishing" -> "Done"

\* A faulty variant: the exit code says the opposite.
ExitCodeInverted == IF success THEN 1 ELSE 0

\* The exit code of main().
ExitCode == IF success THEN 0 ELSE 1

-----------------------------------------------------------------------------
(* Initial values *)

EnvIdle ==
    /\ now = 0
    /\ hashSeed = 0
    /\ faults = 0
    /\ files = [m \in MarketSet |-> NoFiles]

TrendIdle == trendIn = NoPct /\ trendOut = "none"

SimIdle == simCalls = <<>>

ColIdle ==
    /\ runs = 0
    /\ col = "none"
    /\ upstream = <<>>
    /\ ret = NoneVal
    /\ fetchLog = <<>>
    /\ lastRet = [m \in MarketSet |-> NoneVal]

PipeIdle ==
    /\ args = [mode |-> "auto", collect_only |-> FALSE, no_commit |-> FALSE]
    /\ mode = "auto"
    /\ gitEnabled = FALSE
    /\ analysisFile = NoneVal
    /\ pc = "Idle"
    /\ mk = 0
    /\ stageLog = <<>>
    /\ collected = [m \in MarketSet |-> NoneVal]
    /\ returned = [m \in MarketSet |-> NoneVal]
    /\ analysis = NoneVal
    /\ report_path = NoneVal
    /\ success = FALSE
    /\ errors = <<>>
    /\ gitLog = <<>>
    /\ exited = NoneVal

IoIdle ==
    /\ req = NoneVal
    /\ disk = NoneVal

AnIdle ==
    /\ anIn = NoneVal
    /\ anOut = NoneVal
    /\ renderIn = NoneVal
    /\ renderOut = NoneVal

\* The clock moves on.
Tick ==
    /\ now < MaxClock
    /\ now' = now + 1
    /\ UNCHANGED <<hashSeed, faults, trendIn, trendOut, simCalls, files>>
    /\ UNCHANGED colVars
    /\ UNCHANGED pipeVars
    /\ UNCHANGED anVars
    /\ UNCHANGED ioVars

-----------------------------------------------------------------------------
(* The trend classifier applied to one change-percent *)

TrendInputs == {NoPct} \cup {<<c>> : c \in (-MaxPct)..MaxPct}

InitTrend ==
    /\ EnvIdle /\ SimIdle /\ ColIdle /\ PipeIdle /\ AnIdle /\ IoIdle
    /\ trendIn \in TrendInputs
    /\ trendOut = "none"

DetermineTrend ==
    /\ trendOut = "none"
    /\ trendOut' = _determine_trend(trendIn)
    /\ UNCHANGED <<now, hashSeed, faults, trendIn, simCalls, files>>
    /\ UNCHANGED colVars
    /\ UNCHANGED pipeVars
    /\ UNCHANGED anVars
    /\ UNCHANGED ioVars

NextTrend == DetermineTrend

SpecTrend == InitTrend /\ [][NextTrend]_vars

-----------------------------------------------------------------------------
(* Fallback generations within one process *)

InitSim ==
    /\ now = 0 /\ faults = 0 /\ files = [m \in MarketSet |-> NoFiles]
    /\ hashSeed \in 0..MaxSeed
    /\ TrendIdle /\ SimIdle /\ ColIdle /\ PipeIdle /\ AnIdle /\ IoIdle

\* _get_index_data falls back for an index whose fetch gave no live quote.
FallbackIndex(symbol, o) ==
    /\ Len(simCalls) < MaxSimCalls
    /\ simCalls' = Append(simCalls,
           [kind |-> "index", quote |-> CN_get_index_data(symbol, o)])
    /\ UNCHANGED <<now, hashSeed, faults, trendIn, trendOut, files>>
    /\ UNCHANGED colVars
    /\ UNCHANGED pipeVars
    /\ UNCHANGED anVars
    /\ UNCHANGED ioVars

\* _get_stock_data falls back for a stock whose fetch gave no live quote.
FallbackStock(symbol, o) ==
    /\ Len(simCalls) < MaxSimCalls
    /\ simCalls' = Append(simCalls,
           [kind |-> "stock", quote |-> CN_get_stock_data(symbol, o)])
    /\ UNCHANGED <<now, hashSeed, faults, trendIn, trendOut, files>>
    /\ UNCHANGED colVars
    /\ UNCHANGED pipeVars
    /\ UNCHANGED anVars
    /\ UNCHANGED ioVars

\* The upstream outcomes that make a fetch fall back to a simulated quote.
EastFallbacks == {o \in EastFaults : CN_get_index_data("000001.SS", o) # Raised}

NextSim ==
    \/ \E symbol \in Range(CNIndices), o \in EastFallbacks :
           FallbackIndex(symbol, o)
    \/ \E symbol \in Range(CNBlueChips), o \in EastFallbacks :
           FallbackStock(symbol, o)
    \/ Tick

SpecSim == InitSim /\ [][NextSim]_vars

-----------------------------------------------------------------------------
(* Runs of one collector *)

\* The upstream outcomes of a run in which the symbols in F go wrong as f
\* says and every other symbol is answered with live data.
UpWithFaults(m, F, f) ==
    [s \in Range(SymbolsOf(m)) |-> IF s \in F THEN f[s] ELSE LiveOf(m)]

\* The subsets of S with at most n elements.
RECURSIVE SetsUpTo(_, _)
SetsUpTo(S, n) ==
    IF n <= 0 THEN {{}}
    ELSE LET P == SetsUpTo(S, n - 1) IN P \cup {F \cup {a} : F \in P, a \in S}

\* The sets of at most n symbols of collector m.
FaultSets(m, n) == SetsUpTo(Range(SymbolsOf(m)), n)

\* collect_all of collector m against the upstream outcomes up: the snapshot
\* is saved and returned, unless a fetch raised.
RunCollectAll(m, up) ==
    \E r \in {collect_all(m, up)} :
    /\ upstream' = up
    /\ fetchLog' = r.log
    /\ IF r.raised
       THEN /\ ret' = Raised
            /\ UNCHANGED <<files, lastRet>>
       ELSE /\ ret' = r.result
            /\ files' = [files EXCEPT ![m] = _save_data(@, r.result)]
            /\ lastRet' = [lastRet EXCEPT ![m] = r.result]

InitCol ==
    /\ EnvIdle /\ TrendIdle /\ SimIdle /\ PipeIdle /\ AnIdle /\ IoIdle
    /\ runs = 0
    /\ col \in MarketSet
    /\ upstream = <<>>
    /\ ret = NoneVal
    /\ fetchLog = <<>>
    /\ lastRet = [m \in MarketSet |-> NoneVal]

\* One collect_all in which the fetches of the symbols in F go wrong.
CollectAll(F, f) ==
    /\ runs < MaxRuns
    /\ Cardinality(F) <= MaxFaults - faults
    /\ runs' = runs + 1
    /\ faults' = faults + Cardinality(F)
    /\ RunCollectAll(col, UpWithFaults(col, F, f))
    /\ UNCHANGED <<now, hashSeed, trendIn, trendOut, simCalls, col>>
    /\ UNCHANGED pipeVars
    /\ UNCHANGED anVars
    /\ UNCHANGED ioVars

\* One collect_all while the upstream answers every symbol the same way
\* (the network is down, the API has changed its payload, ...).
CollectAllUniform(o) ==
    /\ runs < MaxRuns
    /\ faults = 0
    /\ runs' = runs + 1
    /\ faults' = MaxFaults
    /\ RunCollectAll(col, [s \in Range(SymbolsOf(col)) |-> o])
    /\ UNCHANGED <<now, hashSeed, trendIn, trendOut, simCalls, col>>
    /\ UNCHANGED pipeVars
    /\ UNCHANGED anVars
    /\ UNCHANGED ioVars

NextCol ==
    \/ \E F \in FaultSets(col, MaxFaults - faults) :
           \E f \in [F -> FaultsOf(col)] : CollectAll(F, f)
    \/ \E o \in FaultsOf(col) : CollectAllUniform(o)
    \/ Tick

SpecCol == InitCol /\ [][NextCol]_vars

-----------------------------------------------------------------------------
(* One run of main() *)

Modes == {"auto", "manual", "report"}

\* An analysis document an earlier run left in latest_analysis.json.
PersistedAnalysis ==
    [gold_market |-> [current_price |-> <<204550>>, change_percent |-> <<62>>,
                      trend |-> "mild-up"],
     us_market   |-> [index_analysis |->
                         ("^DJI" :> [close |-> <<3800000>>, trend |-> "flat"])],
     cn_market   |-> [index_analysis |-> <<>>]]

\* The store of collector m after an earlier run whose requests all failed.
PersistedFiles(m) ==
    _save_data(NoFiles,
               collect_all(m, [s \in Range(SymbolsOf(m)) |-> "Fail"]).result)

InitPipe ==
    /\ now = 0
    /\ hashSeed = 0
    /\ faults = 0
    /\ files \in {[m \in MarketSet |-> NoFiles],
                  [m \in MarketSet |-> PersistedFiles(m)]}
    /\ TrendIdle /\ SimIdle /\ ColIdle /\ AnIdle /\ IoIdle
    /\ args \in [mode : Modes, collect_only : BOOLEAN, no_commit : BOOLEAN]
    /\ mode = "unset"
    /\ gitEnabled \in BOOLEAN
    /\ analysisFile \in {NoneVal, JsonDump(PersistedAnalysis)}
    /\ pc = "Start"
    /\ mk = 0
    /\ stageLog = <<>>
    /\ collected = [m \in MarketSet |-> NoneVal]
    /\ returned = [m \in MarketSet |-> NoneVal]
    /\ analysis = NoneVal
    /\ report_path = NoneVal
    /\ success = FALSE
    /\ errors = <<>>
    /\ gitLog = <<>>
    /\ exited = NoneVal

\* The run enters stage `next`; entering Done is result["success"] = True.
Enter(next) ==
    /\ pc' = next
    /\ stageLog' = Append(stageLog, next)
    /\ success' = (next = "Done")

\* main(): --no-commit disables the commit, then run_full_pipeline(args.mode)
\* starts with the collection stage.
Main ==
    /\ pc = "Start"
    /\ mode' = args.mode
    /\ gitEnabled' = IF args.no_commit THEN FALSE ELSE gitEnabled
    /\ Enter("Collecting")
    /\ UNCHANGED <<now, hashSeed, faults, trendIn, trendOut, simCalls, files,
                   args, analysisFile, mk, collected, returned, analysis,
                   report_path, errors, gitLog>>
    /\ UNCHANGED exited
    /\ UNCHANGED colVars
    /\ UNCHANGED anVars
    /\ UNCHANGED ioVars

\* A stage's component cannot be set up (_initialize_collectors,
\* _initialize_analyzer or _initialize_report_generator raises), or, in
\* report mode, latest_analysis.json is there and cannot be read or decoded:
\* the exception reaches run_full_pipeline's handler, which appends str(e)
\* to result["errors"].
StageRaises(text) ==
    /\ \/ pc = "Collecting" /\ mode # "report" /\ mk = 0
       \/ pc = "Analyzing" /\ mode # "report"
       \/ pc = "Analyzing" /\ mode = "report" /\ analysisFile # NoneVal
       \/ pc = "Rendering"
    /\ pc' = "Failed"
    /\ errors' = Append(errors, text)
    /\ UNCHANGED <<now, hashSeed, faults, trendIn, trendOut, simCalls, files,
                   args, mode, gitEnabled, analysisFile, mk, stageLog,
                   collected, returned, analysis, report_path, success,
                   gitLog>>
    /\ UNCHANGED exited
    /\ UNCHANGED colVars
    /\ UNCHANGED anVars
    /\ UNCHANGED ioVars

\* The market collect_data deals with next: gold, then stocks_usa, then
\* stocks_cn.
NextMarket == Markets[(mk % Len(Markets)) + 1]

\* One upstream outcome for each way a fetch of market m can end other than
\* with a live quote: the request fails on every attempt (error quote or
\* simulated quote), the payload makes the fetcher raise, and, for a Yahoo
\* chart, a single day.  The other outcomes end like one of these.
FetchEndings(m) ==
    IF m = "stocks_cn" THEN {"Fail", "NullStock"}
    ELSE {"Fail", "NullResult", "Live1"}

\* collect_data's block for the next market, whose collector runs against
\* the upstream outcomes up; after the third market the stage is over.
CollectMarket(up) ==
    /\ pc = "Collecting" /\ mode # "report" /\ mk < Len(Markets)
    /\ LET m == NextMarket IN
       \E r \in {collect_all(m, up)} :
          /\ returned' = [returned EXCEPT
                             ![m] = IF r.raised THEN Raised ELSE r.result]
          /\ collected' = [collected EXCEPT ![m] = collect_data(m, r)]
          /\ files' = IF r.raised THEN files
                      ELSE [files EXCEPT ![m] = _save_data(@, r.result)]
    /\ mk' = mk + 1
    /\ IF mk' = Len(Markets)
       THEN Enter(run_full_pipeline(pc, mode, report_path))
       ELSE UNCHANGED <<pc, stageLog, success>>
    /\ UNCHANGED <<now, hashSeed, trendIn, trendOut, simCalls, args, mode,
                   gitEnabled, analysisFile, analysis, report_path, errors,
                   gitLog>>
    /\ UNCHANGED exited
    /\ UNCHANGED colVars
    /\ UNCHANGED anVars
    /\ UNCHANGED ioVars

\* The next market is collected while the fetches of the symbols in F go
\* wrong.
CollectMarketWithFaults(F, f) ==
    /\ Cardinality(F) <= MaxFaults - faults
    /\ faults' = faults + Cardinality(F)
    /\ CollectMarket(UpWithFaults(NextMarket, F, f))

\* The next market is collected while its upstream answers every symbol the
\* same way.
CollectMarketUniform(o) ==
    /\ UNCHANGED faults
    /\ CollectMarket([s \in Range(SymbolsOf(NextMarket)) |-> o])

\* Report mode: stage 1 is _load_latest_data; no collector has been
\* constructed, so self.collectors is empty.
LoadLatestData ==
    /\ pc = "Collecting" /\ mode = "report"
    /\ collected' = _load_latest_data({}, files)
    /\ Enter(run_full_pipeline(pc, mode, report_path))
    /\ UNCHANGED <<now, hashSeed, faults, trendIn, trendOut, simCalls, files,
                   args, mode, gitEnabled, analysisFile, mk, returned,
                   analysis, report_path, errors, gitLog>>
    /\ UNCHANGED exited
    /\ UNCHANGED colVars
    /\ UNCHANGED anVars
    /\ UNCHANGED ioVars

\* Stage 2: analyze_data, or _load_latest_analysis in report mode.
AnalyzeData ==
    /\ pc = "Analyzing"
    /\ IF mode # "report"
       THEN \E a \in {analyze_data(collected)} :
               /\ analysis' = a.analysis
               /\ analysisFile' = IF a.saved
                                  THEN _save_analysis_result(a.analysis)
                                  ELSE analysisFile
       ELSE /\ analysis' = _load_latest_analysis(analysisFile)
            /\ UNCHANGED analysisFile
    /\ Enter(run_full_pipeline(pc, mode, report_path))
    /\ UNCHANGED <<now, hashSeed, faults, trendIn, trendOut, simCalls, files,
                   args, mode, gitEnabled, mk, collected, returned,
                   report_path, errors, gitLog>>
    /\ UNCHANGED exited
    /\ UNCHANGED colVars
    /\ UNCHANGED anVars
    /\ UNCHANGED ioVars

\* Stage 3: generate_report; saveOk tells whether the report file could be
\* written.
GenerateReport(saveOk) ==
    /\ pc = "Rendering"
    /\ report_path' = generate_report(collected, analysis, saveOk)
    /\ Enter(run_full_pipeline(pc, mode, report_path'))
    /\ UNCHANGED <<now, hashSeed, faults, trendIn, trendOut, simCalls, files,
                   args, mode, gitEnabled, analysisFile, mk, collected,
                   returned, analysis, errors, gitLog>>
    /\ UNCHANGED exited
    /\ UNCHANGED colVars
    /\ UNCHANGED anVars
    /\ UNCHANGED ioVars

\* Stage 4: commit_to_github; `failing` is the git command that exits with
\* an error, if any.
CommitToGithub(failing) ==
    /\ pc = "Publishing"
    /\ gitLog' = commit_to_github(gitEnabled, failing)
    /\ IF commit_to_github_raises(gitEnabled, failing)
       THEN /\ pc' = "Failed"
            /\ errors' = Append(errors, "CalledProcessError")
            /\ UNCHANGED <<stageLog, success>>
       ELSE /\ Enter(run_full_pipeline(pc, mode, report_path))
            /\ UNCHANGED errors
    /\ UNCHANGED <<now, hashSeed, faults, trendIn, trendOut, simCalls, files,
                   args, mode, gitEnabled, analysisFile, mk, collected,
                   returned, analysis, report_path>>
    /\ UNCHANGED exited
    /\ UNCHANGED colVars
    /\ UNCHANGED anVars
    /\ UNCHANGED ioVars

\* result["data_collection"] and result["analysis"] are assigned in auto
\* and manual mode only, when the stage's call has returned.
ResultRecord ==
    [success |-> success,
     mode    |-> mode,
     data_collection |-> IF mode # "report" /\ "Analyzing" \in Range(stageLog)
                         THEN collected ELSE NoneVal,
     analysis |-> IF mode # "report" /\ "Rendering" \in Range(stageLog)
                  THEN analysis ELSE NoneVal,
     report  |-> report_path,
     errors  |-> errors]

\* The end of main(): run_full_pipeline has returned its result, the summary
\* (success flag, mode, report path, number of errors) is printed and
\* sys.exit is called.
Exit ==
    /\ pc \in {"Done", "Failed"}
    /\ exited = NoneVal
    /\ exited' = [summary |-> [success |-> ResultRecord.success,
                               mode    |-> ResultRecord.mode,
                               report  |-> ResultRecord.report,
                               errors  |-> Len(ResultRecord.errors)],
                  code |-> ExitCode]
    /\ UNCHANGED <<now, hashSeed, faults, trendIn, trendOut, simCalls, files,
                   args, mode, gitEnabled, analysisFile, pc, mk, stageLog,
                   collected, returned, analysis, report_path, success,
                   errors, gitLog>>
    /\ UNCHANGED colVars
    /\ UNCHANGED anVars
    /\ UNCHANGED ioVars

NextPipe ==
    \/ Main
    \/ \E text \in ExceptionTexts : StageRaises(text)
    \/ \E F \in FaultSets(NextMarket, MaxFaults - faults) :
           \E f \in [F -> FetchEndings(NextMarket)] :
               CollectMarketWithFaults(F, f)
    \/ \E o \in FetchEndings(NextMarket) : CollectMarketUniform(o)
    \/ LoadLatestData
    \/ AnalyzeData
    \/ \E saveOk \in BOOLEAN : GenerateReport(saveOk)
    \/ \E failing \in GitFailures : CommitToGithub(failing)
    \/ Exit

SpecPipe == InitPipe /\ [][NextPipe]_vars

\* collect_data's block for the next market ends: the collector returns, or
\* the exception it raised is caught by the block's except clause.
CollectorReturns ==
    /\ pc = "Collecting" /\ mode # "report" /\ mk < Len(Markets)
    /\ mk' = mk + 1

\* analyze_data ends: the analyzer returns, or its exception is caught and
\* the fallback analysis is returned.
AnalysisReturns == pc = "Analyzing" /\ pc' = "Rendering"

\* Every call a stage makes returns or raises: requests time out after 30
\* seconds and are retried a bounded number of times, the analyzer and the
\* renderer have no unbounded loop, and the git commands are taken to
\* terminate.  So no run stays for ever where a stage of it, or the end of
\* main(), can go on.
SpecPipeFair ==
    /\ SpecPipe
    /\ WF_vars(Main)
    /\ WF_mk(CollectorReturns)
    /\ WF_vars(LoadLatestData)
    /\ WF_pc(AnalysisReturns)
    /\ WF_vars(\E saveOk \in BOOLEAN : GenerateReport(saveOk))
    /\ WF_vars(\E failing \in GitFailures : CommitToGithub(failing))
    /\ WF_vars(Exit)

-----------------------------------------------------------------------------
(* Properties *)

\* C10: _determine_trend compares a present change-percent strictly: above
\* 1.0 is strong-up, above 0.2 up to and including 1.0 is mild-up, below -1.0
\* is strong-down, from -1.0 up to but excluding -0.2 is mild-down, and from
\* -0.2 to 0.2 inclusive is flat.
TrendThresholdsStrict ==
    (trendOut # "none" /\ trendIn # NoPct) =>
        LET c == trendIn[1] IN
        /\ (trendOut = "strong-up")   = (c > 100)
        /\ (trendOut = "mild-up")     = (20 < c /\ c <= 100)
        /\ (trendOut = "strong-down") = (c < -100)
        /\ (trendOut = "mild-down")   = (-100 <= c /\ c < -20)
        /\ (trendOut = "flat")        = (-20 <= c /\ c <= 20)

\* A change-percent of exactly 1.0 has been classified, as mild-up.
TrendAtUpperBoundary == trendIn = <<100>> /\ trendOut = "mild-up"

\* C8: two fallback generations for the same symbol in one process give the
\* same price and the same change-percent, for index and for stock quotes.
FallbackStablePerSymbol ==
    \A i, j \in 1..Len(simCalls) :
        (/\ simCalls[i].kind = simCalls[j].kind
         /\ simCalls[i].quote.symbol = simCalls[j].quote.symbol)
        => /\ simCalls[i].quote.close = simCalls[j].quote.close
           /\ simCalls[i].quote.change_percent = simCalls[j].quote.change_percent

\* The same stock has been simulated twice, at two different times.
FallbackStockTwice ==
    \E i, j \in 1..Len(simCalls) :
        /\ i < j
        /\ simCalls[i].kind = "stock" /\ simCalls[j].kind = "stock"
        /\ simCalls[i].quote.symbol = simCalls[j].quote.symbol
        /\ simCalls[i].quote.source = "Simulated"
        /\ simCalls[i].quote.timestamp # simCalls[j].quote.timestamp

-----------------------------------------------------------------------------
(* Properties of one collector's runs *)

\* A collect_all run has been made and it returned a snapshot.
Returned == runs > 0 /\ ret # Raised

\* The quotes a snapshot stores for sub-market sub, by symbol.  The commodity
\* snapshot holds its one futures quote directly under "futures".
StoredQuotes(m, snapshot, sub) ==
    IF m = "gold" THEN ("GC=F" :> snapshot.markets.futures)
    ELSE snapshot.markets[sub]

\* The symbols of sub-market sub whose request failed on every attempt.
FailedSymbols(m, sub) ==
    {s \in Range(SubMarkets(m)[sub]) : RequestFailed(upstream[s])}

\* A quote that came from the live source.
IsLive(q) ==
    /\ "error" \notin DOMAIN q
    /\ q.source \in {"Yahoo Finance", "East Money"}

\* A synthetic quote: a price, a change-percent and a provenance marker
\* that tells it from live data, and no error marker.
IsSynthetic(q) ==
    /\ "error" \notin DOMAIN q
    /\ ("close" \in DOMAIN q \/ "price" \in DOMAIN q)
    /\ "change_percent" \in DOMAIN q
    /\ q.source \notin {"Yahoo Finance", "East Money"}

\* C3: collect_all never raises, whatever the upstream answers to each
\* sub-fetch: it always returns a snapshot.
CollectAllNeverRaises == runs > 0 => ret # Raised

\* C4: a request that fails on every attempt fails that symbol only: the run
\* never stops at such a symbol, the symbols are requested in their
\* configured order, a run whose only faults are failed requests requests
\* every symbol of every sub-market, and each quote a returned snapshot
\* stores is the one fetched for its own symbol.
FailedFetchIsIsolated ==
    runs > 0 =>
        LET all == SymbolsOf(col) IN
        /\ Len(fetchLog) <= Len(all)
        /\ fetchLog = SubSeq(all, 1, Len(fetchLog))
        /\ ret = Raised => ~RequestFailed(upstream[fetchLog[Len(fetchLog)]])
        /\ (\A s \in Range(all) :
               RequestFailed(upstream[s]) \/ upstream[s] = LiveOf(col))
           => (ret # Raised /\ fetchLog = all)
        /\ ret # Raised =>
              /\ fetchLog = all
              /\ \A sub \in DOMAIN SubMarkets(col) :
                    LET stored == StoredQuotes(col, ret, sub) IN
                    \A s \in DOMAIN stored :
                        /\ stored[s].symbol = s
                        /\ IsLive(stored[s]) = (~RequestFailed(upstream[s])
                                                /\ upstream[s] \in {"Live", "Live1", "Live2"})

\* The first index request failed on every attempt and the run went on to
\* store live quotes for the other two indices and for the stocks.
FailedIndexThenLiveQuotes ==
    /\ col = "stocks_usa" /\ Returned
    /\ upstream["^DJI"] = "Fail"
    /\ "error" \in DOMAIN ret.markets.indices["^DJI"]
    /\ IsLive(ret.markets.indices["^IXIC"])
    /\ IsLive(ret.markets.indices["^GSPC"])
    /\ IsLive(ret.markets.popular_stocks["TSLA"])

\* C5: for every symbol whose fetch failed after all retries the snapshot
\* stores a synthetic quote (price, change-percent, provenance marker), and
\* no error value reaches the caller.
FailedFetchGetsSyntheticQuote ==
    Returned =>
        \A sub \in DOMAIN SubMarkets(col) :
            \A s \in FailedSymbols(col, sub) :
                /\ s \in DOMAIN StoredQuotes(col, ret, sub)
                /\ IsSynthetic(StoredQuotes(col, ret, sub)[s])

\* C6: collection_status is "success" exactly when every stored quote is
\* live, and "partial" as soon as one is fallback, simulated or error-marked.
StatusTellsLiveFromPartial ==
    Returned =>
        LET allLive == \A sub \in DOMAIN SubMarkets(col) :
                           \A s \in DOMAIN StoredQuotes(col, ret, sub) :
                               IsLive(StoredQuotes(col, ret, sub)[s])
        IN  ret.metadata.collection_status =
                (IF allLive THEN "success" ELSE "partial")

\* C7: the snapshot has an entry for every configured symbol of every
\* sub-market, whether its fetch succeeded or failed.
EveryConfiguredSymbolHasEntry ==
    Returned =>
        \A sub \in DOMAIN SubMarkets(col) :
            \A s \in Range(SubMarkets(col)[sub]) :
                s \in DOMAIN StoredQuotes(col, ret, sub)

\* The newest timestamped document of a store.
NewestDated(store) ==
    store.dated[CHOOSE t \in DOMAIN store.dated :
                    \A u \in DOMAIN store.dated : u <= t]

\* C9: get_latest_data returns the snapshot the most recent completed
\* collect_all returned, the latest pointer and the newest timestamped
\* document hold the same content, and before any completed run
\* get_latest_data returns None.
LatestIsLastReturned ==
    \A m \in MarketSet :
        /\ get_latest_data(files[m]) = lastRet[m]
        /\ lastRet[m] = NoneVal => DOMAIN files[m].dated = {}
        /\ lastRet[m] # NoneVal =>
              /\ DOMAIN files[m].dated # {}
              /\ NewestDated(files[m]) = files[m].latest

\* Two runs of one collector completed at different times with different
\* snapshots, the second of which get_latest_data now returns.
LatestAfterTwoRuns ==
    /\ runs = 2 /\ ret # Raised
    /\ Cardinality(DOMAIN files[col].dated) = 2
    /\ JsonLoad(files[col].dated[0]) # ret
    /\ get_latest_data(files[col]) = ret

-----------------------------------------------------------------------------
(* Properties of one run of the pipeline *)

\* The position of a stage in the order of the stages.
StageIndex(stage) == IndexOf(Stages, stage)

\* C1: in auto mode the stages of a run are entered only in the order
\* Collecting, Analyzing, Rendering, Publishing, Done: no stage is entered
\* twice or after a later one, a stage is entered only when the one before
\* it has finished (its output is there), and no stage's work is done
\* before the run has entered it.
StagesInOrder ==
    mode = "auto" =>
        /\ \A i, j \in 1..Len(stageLog) :
               i < j => StageIndex(stageLog[i]) < StageIndex(stageLog[j])
        /\ stageLog # <<>> => stageLog[1] = "Collecting"
        /\ pc # "Failed" => pc = stageLog[Len(stageLog)]
        /\ "Analyzing" \in Range(stageLog) =>
               /\ mk = Len(Markets)
               /\ \A m \in MarketSet : collected[m] # NoneVal
        /\ "Analyzing" \notin Range(stageLog) \/ pc = "Analyzing" =>
               analysis = NoneVal
        /\ "Rendering" \in Range(stageLog) =>
               "Analyzing" \in Range(stageLog) /\ analysis # NoneVal
        /\ "Rendering" \notin Range(stageLog) \/ pc = "Rendering" =>
               report_path = NoneVal
        /\ "Publishing" \in Range(stageLog) =>
               "Rendering" \in Range(stageLog) /\ report_path # NoneVal
        /\ "Publishing" \notin Range(stageLog) \/ pc = "Publishing" =>
               gitLog = <<>>
        /\ "Done" \in Range(stageLog) =>
               "Rendering" \in Range(stageLog) /\ pc = "Done" /\ success
        /\ success => pc = "Done"

\* An auto run has gone through all five stages and pushed its commit.
AutoRunThroughAllStages ==
    /\ mode = "auto"
    /\ stageLog = Stages
    /\ gitLog = <<"add", "commit", "push">>
    /\ success

\* C2: in auto and manual mode every market collect_data has dealt with has
\* a snapshot: the market's static fallback snapshot when its collect_all
\* raised, and otherwise exactly what its collect_all returned; when
\* collect_data ends that is all three markets.
CollectDataKeepsThreeSnapshots ==
    mode \in {"auto", "manual"} =>
        /\ \A i \in 1..mk :
              LET m == Markets[i] IN
              /\ collected[m] # NoneVal
              /\ returned[m] # NoneVal
              /\ collected[m] = IF returned[m] = Raised
                                THEN FallbackSnapshot(m) ELSE returned[m]
        /\ stageLog # <<>> /\ pc \notin {"Collecting", "Failed"} =>
              mk = Len(Markets)

\* collect_data has ended after the commodity and the mainland collector
\* raised and the US collector returned a snapshot.
TwoCollectorsRaisedOneReturned ==
    /\ mode \in {"auto", "manual"}
    /\ pc = "Analyzing"
    /\ returned["gold"] = Raised /\ returned["stocks_cn"] = Raised
    /\ returned["stocks_usa"] # Raised
    /\ collected["stocks_cn"] = _get_fallback_cn_stocks_data
    /\ "popular_stocks" \in DOMAIN collected["stocks_usa"].markets

-----------------------------------------------------------------------------
(* The analyzer applied to snapshots *)

\* The longest news list drawn.
MaxNews == 2

\* A news item: tagged positive, negative or neutral, or without a tag.
NewsItems ==
    {[source |-> "Reuters", sentiment |-> t] :
        t \in {"positive", "negative", "neutral"}}
        \cup {[source |-> "Reuters"]}

\* The news lists of at most n items.
RECURSIVE NewsLists(_)
NewsLists(n) ==
    IF n = 0 THEN {<<>>}
    ELSE LET L == NewsLists(n - 1)
         IN  L \cup {Append(l, i) : l \in {k \in L : Len(k) = n - 1},
                                    i \in NewsItems}

\* Futures quotes of a gold snapshot: the error quote, a close alone, a close
\* with the previous close, and quotes with a change-percent, 0 included.
FuturesQuotes ==
    LET base == [symbol |-> "GC=F", source |-> "Yahoo Finance",
                 timestamp |-> now, close |-> 205030]
    IN  {ErrorQuote("GC=F"), base, base @@ [prev_close |-> 204120]}
        \cup {base @@ [prev_close |-> 204120, change_percent |-> c] :
                c \in {-150, -100, -60, -20, 0, 20, 44, 100, 150}}
        \cup {_get_fallback_gold_data.markets.futures}
        \cup {get_gold_price_yahoo("GC=F", o) : o \in {"Live1", "Live2"}}

\* Gold snapshots: every futures quote with and without the spot quote and
\* with no futures quote at all; the news lists vary on one of them.
GoldSnapshots ==
    {[collection_time |-> now, markets |-> mkts, news |-> get_gold_news_sentiment] :
        mkts \in {[futures |-> f, spot |-> get_gold_price_spot] :
                    f \in FuturesQuotes}
               \cup {[futures |-> f] : f \in FuturesQuotes}
               \cup {[spot |-> get_gold_price_spot], <<>>}}
    \cup {[collection_time |-> now,
           markets |-> [futures |-> ErrorQuote("GC=F"),
                        spot |-> get_gold_price_spot],
           news |-> l] : l \in NewsLists(MaxNews)}
    \cup {_get_fallback_gold_data}

\* Snapshots of an equity collector under one outcome for every symbol, and
\* the fallback snapshot.
EquitySnapshots(m, outcomes) ==
    {collect_all(m, [s \in Range(SymbolsOf(m)) |-> o]).result : o \in outcomes}
        \cup {FallbackSnapshot(m)}

USSnapshots == EquitySnapshots("stocks_usa", {"Fail", "Live1", "Live2"})

CNSnapshots == EquitySnapshots("stocks_cn", {"Fail", "Live"})

\* Nothing analysed yet.
NoAnalyses ==
    [gold |-> NoneVal, us |-> NoneVal, cn |-> NoneVal, comparison |-> NoneVal,
     report |-> NoneVal]

InitAnalyze ==
    /\ EnvIdle /\ TrendIdle /\ SimIdle /\ ColIdle /\ PipeIdle /\ IoIdle
    /\ anIn \in [gold : GoldSnapshots, stocks_usa : USSnapshots,
                 stocks_cn : CNSnapshots]
    /\ anOut = NoAnalyses
    /\ renderIn = NoneVal
    /\ renderOut = NoneVal

\* analyze_gold_market(anIn.gold)
AnalyzeGold(tie) ==
    /\ anOut.gold = NoneVal
    /\ anOut' = [anOut EXCEPT !.gold = analyze_gold_market(anIn.gold, tie)]
    /\ UNCHANGED <<anIn, renderIn, renderOut>>

\* analyze_us_stocks(anIn.stocks_usa)
AnalyzeUS ==
    /\ anOut.us = NoneVal
    /\ anOut' = [anOut EXCEPT !.us = analyze_us_stocks(anIn.stocks_usa)]
    /\ UNCHANGED <<anIn, renderIn, renderOut>>

\* analyze_cn_stocks(anIn.stocks_cn)
AnalyzeCN ==
    /\ anOut.cn = NoneVal
    /\ anOut' = [anOut EXCEPT !.cn = analyze_cn_stocks(anIn.stocks_cn)]
    /\ UNCHANGED <<anIn, renderIn, renderOut>>

\* generate_comprehensive_analysis(anIn.gold, anIn.stocks_usa, anIn.stocks_cn)
GenerateComprehensive(tie) ==
    /\ anOut.report = NoneVal
    /\ anOut' = [anOut EXCEPT !.report =
                    generate_comprehensive_analysis(anIn.gold, anIn.stocks_usa,
                                                    anIn.stocks_cn, tie)]
    /\ UNCHANGED <<anIn, renderIn, renderOut>>

\* _generate_cross_market_comparison of the three analyses made.
CompareMarkets ==
    /\ anOut.comparison = NoneVal
    /\ anOut.gold # NoneVal
    /\ anOut.us \notin {NoneVal, Raised}
    /\ anOut.cn \notin {NoneVal, Raised}
    /\ anOut' = [anOut EXCEPT !.comparison =
                    _generate_cross_market_comparison(anOut.gold, anOut.us,
                                                      anOut.cn)]
    /\ UNCHANGED <<anIn, renderIn, renderOut>>

NextAnalyze ==
    /\ \/ \E tie \in {0, 1} : AnalyzeGold(tie)
       \/ AnalyzeUS
       \/ AnalyzeCN
       \/ CompareMarkets
       \/ \E tie \in {0, 1} : GenerateComprehensive(tie)
    /\ UNCHANGED <<now, hashSeed, faults, trendIn, trendOut, simCalls, files,
                    colVars, pipeVars, ioVars>>

SpecAnalyze == InitAnalyze /\ [][NextAnalyze]_vars

-----------------------------------------------------------------------------
(* Properties of the analyzer *)

\* The futures and the spot quote of the gold snapshot under analysis.
FuturesIn == GetDict(GetDict(anIn.gold, "markets"), "futures")
SpotIn    == GetDict(GetDict(anIn.gold, "markets"), "spot")

\* C11: the trend of the gold analysis is unknown exactly when the snapshot
\* carries no change-percent, and a futures change-percent of exactly 0 is
\* reported as 0 with the trend flat, not replaced by the spot quote's
\* change-percent and not turned into unknown.
ZeroFuturesChangeIsFlat ==
    anOut.gold # NoneVal =>
        /\ anOut.gold.trend = "unknown"
              <=> /\ Get(FuturesIn, "change_percent") = <<>>
                  /\ Get(SpotIn, "change_percent") = <<>>
        /\ Get(FuturesIn, "change_percent") = <<0>>
              => /\ anOut.gold.change_percent = <<0>>
                 /\ anOut.gold.trend = "flat"

\* C12: a futures quote with close 2050.30, previous close 2041.20 and no
\* change-percent of its own gives the analysis a change-percent of about
\* 0.446 (derived from the two closes) and the trend mild-up.
ChangeDerivedFromCloses ==
    /\ anOut.gold # NoneVal
    /\ Get(FuturesIn, "close") = <<205030>>
    /\ Get(FuturesIn, "prev_close") = <<204120>>
    /\ "change_percent" \notin DOMAIN FuturesIn
    => /\ anOut.gold.change_percent \in {<<44>>, <<45>>}
       /\ anOut.gold.trend = "mild-up"

\* The percentages of the support and of the resistance levels, in order.
SupportFactors    == <<98, 95, 92>>
ResistanceFactors == <<102, 105, 108>>

\* levels (in hundredths) are, in order, the given percentages of price p
\* (in hundredths), each to within half a hundredth.
WithinHalfCent(levels, p, factors) ==
    /\ Len(levels) = Len(factors)
    /\ \A i \in 1..Len(factors) : Abs(100 * levels[i] - p * factors[i]) <= 50

\* levels are, in order, exactly the given percentages of price p.
ExactOffsets(levels, p, factors) ==
    /\ Len(levels) = Len(factors)
    /\ \A i \in 1..Len(factors) : 100 * levels[i] = p * factors[i]

\* C13: for a present current price p the support levels are p reduced by
\* 2%, 5% and 8%, in that order, and the resistance levels are p increased by
\* 2%, 5% and 8%, in that order, each rounded to two decimals; for
\* p = 2050.30 the support is [2009.29, 1947.785 rounded, 1886.28] and the
\* resistance [2091.31, 2152.815 rounded, 2214.32].
LevelsAreRoundedOffsets ==
    anOut.gold # NoneVal /\ anOut.gold.current_price # <<>> =>
        LET p == anOut.gold.current_price[1]
            s == anOut.gold.support_levels
            r == anOut.gold.resistance_levels
        IN  /\ WithinHalfCent(s, p, SupportFactors)
            /\ WithinHalfCent(r, p, ResistanceFactors)
            /\ p = 205030 =>
                  /\ s[1] = 200929 /\ s[2] \in {194778, 194779} /\ s[3] = 188628
                  /\ r[1] = 209131 /\ r[2] \in {215281, 215282} /\ r[3] = 221432

\* The gold analysis of a snapshot whose futures close is 2050.30.
LevelsOf205030 ==
    /\ anOut.gold # NoneVal
    /\ anOut.gold.current_price = <<205030>>
    /\ anOut.gold.support_levels = <<200929, 194779, 188628>>
    /\ anOut.gold.resistance_levels = <<209131, 215282, 221432>>

\* C13 as stated: the levels are the offsets themselves (1947.785, 1886.276,
\* 2091.306, ... for 2050.30), with no rounding.
LevelsAreExactOffsets ==
    anOut.gold # NoneVal /\ anOut.gold.current_price # <<>> =>
        /\ ExactOffsets(anOut.gold.support_levels,
                        anOut.gold.current_price[1], SupportFactors)
        /\ ExactOffsets(anOut.gold.resistance_levels,
                        anOut.gold.current_price[1], ResistanceFactors)

\* C14: on snapshots with an absent price or change-percent (index quotes
\* with a close and no change-percent, as the US collector stores them,
\* included) each per-market analysis returns without raising, and the fields
\* that depend on the absent value hold explicit unknown values.
AnalysesDegradeToUnknown ==
    /\ anOut.us # Raised
    /\ anOut.cn # Raised
    /\ anOut.us \notin {NoneVal, Raised} =>
          \A s \in DOMAIN anOut.us.index_analysis :
              anOut.us.index_analysis[s].change_percent = <<>>
                  => anOut.us.index_analysis[s].trend = "unknown"
    /\ anOut.gold # NoneVal /\ anOut.gold.current_price = <<>> =>
          /\ anOut.gold.support_levels = <<>>
          /\ anOut.gold.resistance_levels = <<>>
          /\ anOut.gold.technical_indicators.rsi.value = <<>>
    /\ anOut.gold # NoneVal /\ anOut.gold.change_percent = <<>> =>
          anOut.gold.trend = "unknown"

\* The news items of the gold snapshot under analysis that carry the tag.
NewsTagged(tag) ==
    LET news == GetDict(anIn.gold, "news")
    IN  {i \in 1..Len(news) :
            "sentiment" \in DOMAIN news[i] /\ news[i].sentiment = tag}

\* C15: the overall mood is positive exactly when the news items tagged
\* positive outnumber those tagged negative, negative exactly when they are
\* outnumbered, and neutral on a tie and on an empty list; items tagged
\* neutral and items without a tag count for neither side.
SentimentIsMajorityVote ==
    anOut.gold # NoneVal =>
        LET positive == Cardinality(NewsTagged("positive"))
            negative == Cardinality(NewsTagged("negative"))
            overall  == anOut.gold.sentiment.overall
        IN  /\ overall = "positive :)" <=> positive > negative
            /\ overall = "negative :(" <=> negative > positive
            /\ overall \in {"neutral", "neutral :|"} <=> positive = negative
            /\ GetDict(anIn.gold, "news") = <<>> => overall = "neutral"

\* A positive item and an item without a tag: positive, one to nothing.
PositiveOutvotesUntagged ==
    /\ anOut.gold # NoneVal
    /\ Len(GetDict(anIn.gold, "news")) = 2
    /\ Cardinality(NewsTagged("positive")) = 1
    /\ Cardinality(NewsTagged("neutral")) = 0
    /\ Cardinality(NewsTagged("negative")) = 0
    /\ anOut.gold.sentiment.overall = "positive :)"
    /\ anOut.gold.sentiment.positive_count = 1

\* C16: generate_comprehensive_analysis does not raise: it returns a report
\* that holds the three per-market analyses, the cross-market comparison, the
\* key insights and the risk assessment.
ComprehensiveAnalysisReturns ==
    anOut.report # NoneVal =>
        /\ anOut.report # Raised
        /\ {"gold_market", "us_market", "cn_market", "cross_market_comparison",
            "key_insights", "risk_assessment"} \subseteq DOMAIN anOut.report

\* The changes a market's analysis reports: the gold change, or the change
\* of every index row.
ChangesOf(m) ==
    IF m = "gold"
    THEN {anOut.gold.change_percent[i] :
             i \in 1..Len(anOut.gold.change_percent)}
    ELSE LET rows == IF m = "stocks_usa" THEN anOut.us.index_analysis
                     ELSE anOut.cn.index_analysis
         IN  {rows[s].change_percent[1] : s \in DOMAIN rows}

\* Every change of market a is below every change of market b.
StrictlyBelow(a, b) ==
    /\ ChangesOf(a) # {} /\ ChangesOf(b) # {}
    /\ \A x \in ChangesOf(a) : \A y \in ChangesOf(b) : x < y

\* C17: the performance ranking lists the three markets in descending order
\* of change-percent: no market is listed before one that did better than it
\* on every figure.
RankingFollowsChange ==
    anOut.comparison # NoneVal =>
        LET ranking == anOut.comparison.performance_ranking
        IN  /\ Range(ranking) = MarketSet
            /\ \A i, j \in 1..Len(ranking) :
                  i < j => ~StrictlyBelow(ranking[i], ranking[j])

-----------------------------------------------------------------------------
(* The renderer applied to analyses *)

\* A dict with or without the key k, holding one of the values V.
Opt(k, V) == {<<>>} \cup {k :> v : v \in V}

\* Commodity sections: each of the price, the change-percent and the trend
\* missing, None or present.
GoldSections ==
    {p @@ c @@ t : p \in Opt("current_price", {<<>>, <<205030>>, <<204550>>}),
                   c \in Opt("change_percent", {<<>>, <<0>>, <<44>>, <<-150>>}),
                   t \in Opt("trend", {"mild-up"})}

\* Index rows: the close and the change-percent missing, None or present.
IndexRowsIn ==
    {c @@ p @@ [trend |-> "flat"] :
        c \in Opt("close", {<<>>, <<3800000>>}),
        p \in Opt("change_percent", {<<>>, <<20>>, <<-35>>})}

\* Equity sections: no index table, an empty one, or one row.
EquitySections(symbol) ==
    {<<>>, [index_analysis |-> <<>>]}
        \cup {[index_analysis |-> symbol :> row] : row \in IndexRowsIn}

\* The analyses handed to the renderer: every combination of the sections
\* above, each of them there or not, and the two analyses of main.py.
Analyses ==
    {g @@ u @@ c : g \in Opt("gold_market", GoldSections),
                   u \in Opt("us_market", EquitySections("^DJI")),
                   c \in Opt("cn_market", {<<>>, [index_analysis |-> <<>>],
                                           _get_fallback_analysis.cn_market})}
        \cup {_get_fallback_analysis, PersistedAnalysis}

InitRender ==
    /\ EnvIdle /\ TrendIdle /\ SimIdle /\ ColIdle /\ PipeIdle /\ IoIdle
    /\ anIn = NoneVal
    /\ anOut = NoneVal
    /\ renderIn \in Analyses
    /\ renderOut = NoneVal

\* generate_daily_report(renderIn)
Render ==
    /\ renderOut = NoneVal
    /\ renderOut' = generate_daily_report(renderIn)
    /\ UNCHANGED <<anIn, anOut, renderIn>>
    /\ UNCHANGED <<now, hashSeed, faults, trendIn, trendOut, simCalls, files,
                   colVars, pipeVars, ioVars>>

NextRender == Render

SpecRender == InitRender /\ [][NextRender]_vars

\* C18: generate_daily_report never raises when optional fields are missing
\* or null (a missing commodity price, a null index close or change-percent,
\* an entirely empty analysis): it shows a placeholder for them.
RenderNeverRaises ==
    renderOut # NoneVal =>
        /\ renderOut # Raised
        /\ GetDict(GetDict(renderIn, "gold_market"), "change_percent") = <<>>
              => renderOut.change_percent = NA

-----------------------------------------------------------------------------
(* Properties of the commit and of report mode *)

\* The positions of the stage log at which the run entered `stage`.
Entries(stage) == {i \in 1..Len(stageLog) : stageLog[i] = stage}

\* C19: commit_to_github is invoked at most once per run, only in auto mode
\* and only after the rendering stage returned a report path; it is never
\* invoked in manual or report mode, and with --no-commit no git command is
\* executed in any mode.
CommitOnlyInAutoWithReport ==
    /\ Cardinality(Entries("Publishing")) <= 1
    /\ Entries("Publishing") # {} =>
          /\ mode = "auto"
          /\ report_path # NoneVal
          /\ \E i \in Entries("Rendering") :
                 \A j \in Entries("Publishing") : i < j
    /\ gitLog # <<>> => Entries("Publishing") # {}
    /\ mode \in {"manual", "report"} =>
          /\ Entries("Publishing") = {}
          /\ gitLog = <<>>
    /\ args.no_commit => gitLog = <<>>

\* An auto run that rendered a report and ran the three git commands.
AutoRunCommitted ==
    /\ mode = "auto"
    /\ pc = "Done"
    /\ ~args.no_commit
    /\ report_path # NoneVal
    /\ gitLog = <<"add", "commit", "push">>

\* C20: in report mode no collector fetches and no analysis is made; the
\* renderer is given the persisted latest analysis and, for every market
\* whose collector has persisted a snapshot, the snapshot its latest pointer
\* holds.
ReportModeReusesLatest ==
    mode = "report" =>
        /\ fetchLog = <<>>
        /\ \A m \in MarketSet : returned[m] = NoneVal
        /\ pc \in {"Rendering", "Publishing", "Done"} =>
              /\ analysis = _load_latest_analysis(analysisFile)
              /\ \A m \in MarketSet :
                    files[m].latest # NoneVal
                        => collected[m] = JsonLoad(files[m].latest)

-----------------------------------------------------------------------------
(* Properties of the outcome of a run *)

\* C21: a report-mode run with no persisted analysis and no persisted
\* snapshot does not crash: it renders and persists a degraded report,
\* returns its path, and ends with success true and exit code 0.
EmptyReportRunRenders ==
    /\ mode = "report"
    /\ analysisFile = NoneVal
    /\ \A m \in MarketSet : files[m].latest = NoneVal
    /\ pc = "Done"
    => /\ report_path # NoneVal
       /\ success
       /\ ExitCode = 0

\* C22: a failure of the publishing step (a git add, commit or push that
\* fails, or any other exception inside commit_to_github) never changes the
\* outcome of the run: once the report is persisted and publishing is
\* entered, the run does not fail, and it ends with success true, the report
\* path in the result and exit code 0.
PublishingFailureIsHarmless ==
    Entries("Publishing") # {} =>
        /\ pc # "Failed"
        /\ errors = <<>>
        /\ report_path # NoneVal
        /\ pc # "Publishing" => success /\ ExitCode = 0

\* A run whose git add failed and which ended successfully.
RunDoneAfterFailedAdd ==
    /\ pc = "Done"
    /\ gitLog = <<"add">>
    /\ success
    /\ report_path # NoneVal

\* C23: started with --collect-only, the run performs the collection stage
\* and stops: the analysis, rendering and publishing stages are never
\* entered.
CollectOnlyStopsAfterCollecting ==
    args.collect_only =>
        /\ Entries("Analyzing") = {}
        /\ Entries("Rendering") = {}
        /\ Entries("Publishing") = {}

\* C24: an exception that leaves the collection, analysis or rendering stage
\* is fatal (success false, exit code 1), and the exit code is 0 only when
\* every stage the run entered completed and, outside --collect-only, a
\* report was persisted.
ExitCodeZeroMeansReport ==
    /\ pc = "Failed" => ~success /\ ExitCode = 1
    /\ exited # NoneVal /\ exited.code = 0 =>
          /\ errors = <<>>
          /\ ~args.collect_only => report_path # NoneVal

\* The stage in which a failed run was when the exception was raised: the
\* last stage it entered.
FailedStage == stageLog[Len(stageLog)]

\* The stage a reader can take from a result record: its stage field if it
\* has one, otherwise the first stage whose output the record does not hold.
StageOfRecord(r) ==
    IF "stage" \in DOMAIN r THEN r.stage
    ELSE IF r.data_collection = NoneVal THEN "Collecting"
    ELSE IF r.analysis = NoneVal THEN "Analyzing"
    ELSE "Rendering"

\* C25: whenever a run ends failed, the result record identifies the stage in
\* which the failure happened, as well as the exception: the failing stage
\* can be read from the record alone.
FailedStageInRecord ==
    pc = "Failed" =>
        /\ ResultRecord.errors # <<>>
        /\ StageOfRecord(ResultRecord) = FailedStage

\* C26: every run of the entry point, in every mode and whatever exception a
\* stage raises, eventually gets a result record back from run_full_pipeline
\* (no exception leaves it), prints the final summary with the success flag,
\* the mode and the report path, and exits with code 0 if the success flag
\* is true and 1 otherwise.
EveryRunExitsWithSummary ==
    /\ <>(exited # NoneVal)
    /\ [](exited # NoneVal =>
            /\ exited.summary.success = success
            /\ exited.summary.mode = args.mode
            /\ exited.summary.report = report_path
            /\ exited.code = IF success THEN 0 ELSE 1)

\* A run in which a stage raised and which exited with code 1.
FailedRunExitedWithOne ==
    /\ exited # NoneVal
    /\ errors # <<>>
    /\ ~exited.summary.success
    /\ exited.code = 1
-----------------------------------------------------------------------------
(* _make_request: the retry loop of the three collectors *)

\* The largest value of the parameter `retries` (its default is 3).
MaxRetries == 3

\* The collectors' _make_request functions have the same loop.
RequestSources == {"gold", "stocks_usa", "stocks_cn"}

\* The ways session.get / raise_for_status can fail with a
\* requests.RequestException.
RequestFailures == {"ConnectionError", "Timeout", "HTTPError"}

\* The bodies of the answers with a success status.
Bodies == {"chart", "quote"}

\* response.json() of an answer with body b.
Decoded(b) == [json |-> b]

\* The call has not returned yet.
Running == [running |-> TRUE]

\* A faulty variant: the waiting time doubles from two seconds.
backoff_from_two(attempt) == 2 * (attempt + 1)

\* time.sleep(2 ** attempt): the seconds waited after failed attempt number
\* `attempt` (counted from 0).
backoff(attempt) == 2 ^ attempt

InitRetry ==
    /\ EnvIdle /\ TrendIdle /\ SimIdle /\ ColIdle /\ PipeIdle /\ AnIdle
    /\ disk = NoneVal
    /\ req \in [source : RequestSources, retries : 0..MaxRetries,
                attempt : {0}, log : {<<>>}, out : {Running}]

\* One iteration of `for attempt in range(retries)`: the request is sent and
\* ends as `end` says ("ok" with body b, or a RequestException).  A success
\* returns the decoded body; a failure sleeps and goes on with the next
\* attempt, or returns None when the attempt was the last one.
Attempt(end, b) ==
    /\ req # NoneVal /\ req.out = Running
    /\ req.attempt < req.retries
    /\ LET sent == [ev |-> "get", attempt |-> req.attempt, end |-> end] IN
       IF end = "ok"
       THEN req' = [req EXCEPT !.log = Append(@, sent), !.out = Decoded(b)]
       ELSE IF req.attempt < req.retries - 1
       THEN req' = [req EXCEPT
                       !.log = @ \o <<sent, [ev |-> "sleep",
                                             s  |-> backoff(req.attempt)]>>,
                       !.attempt = @ + 1]
       ELSE req' = [req EXCEPT !.log = Append(@, sent), !.out = NoneVal]
    /\ UNCHANGED disk
    /\ UNCHANGED <<now, hashSeed, faults, trendIn, trendOut, simCalls, files,
                   colVars, pipeVars, anVars>>

\* range(retries) is empty (retries = 0): the function ends without a return
\* statement, which returns None.
LoopNotEntered ==
    /\ req # NoneVal /\ req.out = Running
    /\ req.attempt >= req.retries
    /\ req' = [req EXCEPT !.out = NoneVal]
    /\ UNCHANGED disk
    /\ UNCHANGED <<now, hashSeed, faults, trendIn, trendOut, simCalls, files,
                   colVars, pipeVars, anVars>>

NextRetry ==
    \/ \E b \in Bodies : Attempt("ok", b)
    \/ \E end \in RequestFailures : Attempt(end, "chart")
    \/ LoopNotEntered

SpecRetry == InitRetry /\ [][NextRetry]_vars

\* The positions of the requests sent so far in the log of the call.
Gets == {i \in 1..Len(req.log) : req.log[i].ev = "get"}

\* C27: _make_request sends at most `retries` requests; the first success
\* returns the decoded body and nothing is sent after it; after failed attempt
\* number k that is not the last it waits 2^k seconds (1, 2, ...) and
\* only then; after the last failed attempt it returns None without waiting.
RetryWithBackoff ==
    req # NoneVal =>
        /\ Cardinality(Gets) <= req.retries
        /\ \A i \in 1..Len(req.log) :
              LET e == req.log[i] IN
              IF e.ev = "get"
              THEN /\ e.attempt = Cardinality({j \in Gets : j < i})
                   /\ IF e.end = "ok"
                      THEN /\ i = Len(req.log)
                           /\ req.out \in {Decoded(b) : b \in Bodies}
                      ELSE IF e.attempt < req.retries - 1
                      THEN /\ i < Len(req.log)
                           /\ req.log[i + 1] =
                                  [ev |-> "sleep", s |-> 2 ^ e.attempt]
                      ELSE /\ i = Len(req.log)
                           /\ req.out = NoneVal
              ELSE /\ i > 1
                   /\ req.log[i - 1].ev = "get"
                   /\ req.log[i - 1].end # "ok"
        /\ req.out = NoneVal =>
              \/ req.retries = 0 /\ req.log = <<>>
              \/ /\ Cardinality(Gets) = req.retries
                 /\ req.log[Len(req.log)].ev = "get"
        /\ req.out = Running => Cardinality(Gets) < req.retries \/ req.retries = 0

\* With retries = 3 two attempts failed, the waits were 1 s and 2 s, and the
\* third attempt returned the decoded body.
ThirdAttemptSucceeded ==
    /\ req # NoneVal
    /\ req.retries = 3
    /\ Len(req.log) = 5
    /\ req.log[2] = [ev |-> "sleep", s |-> 1]
    /\ req.log[4] = [ev |-> "sleep", s |-> 2]
    /\ req.log[5].end = "ok"
    /\ req.out = Decoded("quote")
-----------------------------------------------------------------------------
(* _save_data step by step, with a reader of the latest file *)

\* The number of snapshots a collector saves, one after the other.
MaxSaves == 2

\* The snapshots collect_all hands to _save_data.
Snapshots == {"snapshotA", "snapshotB"}

\* The text json.dump writes for a snapshot, in the pieces the file receives:
\* the opening brace, the members and the closing brace.
JsonText(data) == <<"{", data, "}">>

\* json.load of the text of a file: the value when the text is a whole
\* document, JSONDecodeError when it is empty or ends early.
JsonParse(text) ==
    IF Len(text) = 3 /\ text = JsonText(text[2])
    THEN [value |-> text[2]]
    ELSE Raised

\* A path with no file, and a file holding a text.
NoFile == [exists |-> FALSE, text |-> <<>>]
File(text) == [exists |-> TRUE, text |-> text]

\* No call of get_latest_data has returned yet.
Unread == [unread |-> TRUE]

\* The latest file of a collector before its first run and after a run.
InitSave ==
    /\ EnvIdle /\ TrendIdle /\ SimIdle /\ ColIdle /\ PipeIdle /\ AnIdle
    /\ req = NoneVal
    /\ disk \in [latest : {NoFile} \cup {File(JsonText(d)) : d \in Snapshots},
                 dated  : {NoFile},
                 open   : {"none"},
                 data   : {"none"},
                 saves  : {0},
                 got    : {Unread}]

\* _save_data is called with a snapshot: open(filename, 'w') creates the
\* timestamped file.
SaveOpensDated(d) ==
    /\ disk # NoneVal /\ disk.open = "none" /\ disk.saves < MaxSaves
    /\ disk' = [disk EXCEPT !.open = "dated", !.data = d,
                            !.dated = File(<<>>)]
    /\ UNCHANGED req
    /\ UNCHANGED <<now, hashSeed, faults, trendIn, trendOut, simCalls, files,
                   colVars, pipeVars, anVars>>

\* json.dump into the timestamped file: the text reaches the file up to its
\* n-th piece; with the last piece the file is closed, and
\* open(latest_link, 'w') creates the latest file or truncates it to nothing.
WriteDated(n) ==
    /\ disk # NoneVal /\ disk.open = "dated"
    /\ n \in (Len(disk.dated.text) + 1)..3
    /\ disk' = IF n < 3
               THEN [disk EXCEPT
                        !.dated = File(SubSeq(JsonText(disk.data), 1, n))]
               ELSE [disk EXCEPT !.dated = File(JsonText(disk.data)),
                                 !.open = "latest",
                                 !.latest = File(<<>>)]
    /\ UNCHANGED req
    /\ UNCHANGED <<now, hashSeed, faults, trendIn, trendOut, simCalls, files,
                   colVars, pipeVars, anVars>>

\* json.dump into the latest file: the text reaches the file up to its n-th
\* piece; with the last piece the file is closed and _save_data returns.
WriteLatest(n) ==
    /\ disk # NoneVal /\ disk.open = "latest"
    /\ n \in (Len(disk.latest.text) + 1)..3
    /\ disk' = IF n < 3
               THEN [disk EXCEPT
                        !.latest = File(SubSeq(JsonText(disk.data), 1, n))]
               ELSE [disk EXCEPT !.latest = File(JsonText(disk.data)),
                                 !.open = "none",
                                 !.saves = @ + 1]
    /\ UNCHANGED req
    /\ UNCHANGED <<now, hashSeed, faults, trendIn, trendOut, simCalls, files,
                   colVars, pipeVars, anVars>>

\* get_latest_data in another process: None when the latest file does not
\* exist, json.load of its text as it is now otherwise.
GetLatestData ==
    /\ disk # NoneVal
    /\ disk' = [disk EXCEPT !.got = IF disk.latest.exists
                                    THEN JsonParse(disk.latest.text)
                                    ELSE NoneVal]
    /\ UNCHANGED req
    /\ UNCHANGED <<now, hashSeed, faults, trendIn, trendOut, simCalls, files,
                   colVars, pipeVars, anVars>>

NextSave ==
    \/ \E d \in Snapshots : SaveOpensDated(d)
    \/ \E n \in 1..3 : WriteDated(n)
    \/ \E n \in 1..3 : WriteLatest(n)
    \/ GetLatestData

SpecSave == InitSave /\ [][NextSave]_vars

\* C28: a reader calling get_latest_data while collect_all is persisting a
\* snapshot never observes a half-written latest file: it gets None (no file
\* yet) or a whole snapshot, the previous one or the new one.
ReaderSeesWholeLatest ==
    disk # NoneVal /\ disk.got # Unread =>
        disk.got = NoneVal \/ disk.got \in {[value |-> d] : d \in Snapshots}
-----------------------------------------------------------------------------
(* Properties of what a run persists and of the quotes it fetched *)

\* C29: in auto and manual mode the analysis handed to the renderer is the
\* one this run persisted: once the rendering stage is entered,
\* latest_analysis.json holds exactly the analysis generate_report receives.
RenderedAnalysisIsPersisted ==
    mode \in {"auto", "manual"} /\ "Rendering" \in Range(stageLog) =>
        /\ analysisFile # NoneVal
        /\ JsonLoad(analysisFile) = analysis

\* The quotes in the snapshot a commodity or foreign-stock collector returned.
FetchedQuotes ==
    IF col = "gold"
    THEN {ret.markets.futures, ret.markets.spot}
    ELSE {ret.markets.indices[s] : s \in DOMAIN ret.markets.indices}
         \cup {ret.markets.popular_stocks[s] :
                   s \in DOMAIN ret.markets.popular_stocks}

\* The previous close a quote carries, under either of the keys in use.
HasPreviousClose(q) ==
    "prev_close" \in DOMAIN q \/ "previous_close" \in DOMAIN q
PreviousCloseOf(q) ==
    IF "prev_close" \in DOMAIN q THEN q.prev_close ELSE q.previous_close

\* C30: every live quote of the commodity and foreign-stock collectors that
\* has both a close and a previous close also carries a change-percent, equal
\* to (close - previous close) / previous close * 100.
ChangePercentFromPreviousClose ==
    col \in {"gold", "stocks_usa"} /\ ret # NoneVal /\ ret # Raised =>
        \A q \in FetchedQuotes :
            IsLive(q) /\ "close" \in DOMAIN q /\ HasPreviousClose(q) =>
                /\ "change_percent" \in DOMAIN q
                /\ q.change_percent = PctChange(q.close, PreviousCloseOf(q))
=============================================================================
